---- MODULE Spec2Model ----
(***************************************************************************)
(* A model of the study-progress domain of goal-dashboard: the classes of  *)
(* models.py (Pruefungsleistung, Modul, Semester, Studiengang), their      *)
(* derived calculations and their JSON persistence.                        *)
(*                                                                         *)
(* Representation.                                                          *)
(*  - A Python object is a record whose field kind is its class; None is   *)
(*    the record None.                                                      *)
(*  - A grade (float, German scale, 0.1 steps) is an integer number of     *)
(*    tenths: 4.0 is 40.  A float that results from a division is the      *)
(*    exact fraction [num, den] in tenths (FloatDiv); two such floats are  *)
(*    compared by FloatEq.  Rounding of binary floating point is not       *)
(*    modelled.                                                             *)
(*  - A date is [year, month, day]; its ISO string is the sequence of its  *)
(*    ten characters, a digit as 0..9 and "-" as Dash.                      *)
(*  - Modul defines no __eq__, so list.remove(modul) compares by identity. *)
(*    Every operation that adds a module constructs a new Modul, which so  *)
(*    occurs at exactly one position of one list: a module is named by     *)
(*    that position (semester index, module index).                        *)
(***************************************************************************)
EXTENDS Integers, Sequences, FiniteSets, TLC

VARIABLES
    studiengang,    \* the Studiengang object the session works on
    datei,          \* the persisted file: NoFile, or the JSON document in it
    geladen,        \* the object load_from_file returned last, or None
    session,        \* st.session_state and the display of the dashboard
    heap            \* the lists and objects of a caller of models.py (SpecOwn)

vars == <<studiengang, datei, geladen, session, heap>>

(***************************************************************************)
(* Bounds of the model: the semesters of the Studiengang and the modules   *)
(* in all of them together.                                                 *)
(***************************************************************************)
MaxSemester == 2
MaxModule == 2

\* The user interactions of the sessions of SpecGui.
MaxClicks == 2

\* The lists and the objects of each class on the heap of SpecOwn.
MaxListen == 3
MaxObjekte == 2

(***************************************************************************)
(* Python values.                                                           *)
(***************************************************************************)
None == [kind |-> "NoneType"]

Raised(type) == [kind |-> "Exception", type |-> type]

IsRaised(x) == x.kind = "Exception"

Float(num, den) == [kind |-> "float", num |-> num, den |-> den]

\* a / b on numbers
FloatDiv(a, b) == IF b = 0 THEN Raised("ZeroDivisionError") ELSE Float(a, b)

\* x * n on a float x
FloatMul(x, n) == IF IsRaised(x) THEN x ELSE Float(x.num * n, x.den)

FloatEq(x, y) == x.kind = "float" /\ y.kind = "float" /\ x.num * y.den = y.num * x.den

FloatLeq(x, y) == x.kind = "float" /\ y.kind = "float" /\ x.num * y.den <= y.num * x.den

(***************************************************************************)
(* class Pruefungsleistung                                                  *)
(***************************************************************************)
Pruefungsleistung(note, datum, status) ==
    [kind |-> "Pruefungsleistung", note |-> note, datum |-> datum, status |-> status]

\* Mutant: the status is not looked at.
Pruefungsleistung_ist_bestanden_note_only(self) ==
    self.note <= 40

Pruefungsleistung_ist_bestanden(self) ==
    self.note <= 40 /\ self.status = "bestanden"

(***************************************************************************)
(* class Modul                                                              *)
(***************************************************************************)
Modul(name, ects, pruefungsleistung) ==
    [kind |-> "Modul", name |-> name, ects |-> ects,
     pruefungsleistung |-> pruefungsleistung]

\* Mutant: any assessment record counts as passed.
Modul_ist_bestanden_any_record(self) ==
    self.pruefungsleistung # None

Modul_ist_bestanden(self) ==
    self.pruefungsleistung # None
        /\ Pruefungsleistung_ist_bestanden(self.pruefungsleistung)

Modul_get_note(self) ==
    IF self.pruefungsleistung # None THEN self.pruefungsleistung.note ELSE None

\* sum(...) over a generator of the modules' fields.
RECURSIVE SumSeq(_)
SumSeq(s) == IF s = <<>> THEN 0 ELSE Head(s) + SumSeq(Tail(s))

RECURSIVE MapEcts(_)
MapEcts(ms) == IF ms = <<>> THEN <<>> ELSE <<Head(ms).ects>> \o MapEcts(Tail(ms))

RECURSIVE MapNoteEcts(_)
MapNoteEcts(ms) ==
    IF ms = <<>> THEN <<>>
    ELSE <<Modul_get_note(Head(ms)) * Head(ms).ects>> \o MapNoteEcts(Tail(ms))

(***************************************************************************)
(* class Semester                                                           *)
(***************************************************************************)
Semester(nummer, geplante_ects, module) ==
    [kind |-> "Semester", nummer |-> nummer, geplante_ects |-> geplante_ects,
     module |-> IF module # <<>> THEN module ELSE <<>>]

\* Mutant: the empty list is not tested for, and all() of nothing is true.
Semester_ist_abgeschlossen_no_empty_check(self) ==
    \A k \in 1..Len(self.module) : Modul_ist_bestanden(self.module[k])

Semester_ist_abgeschlossen(self) ==
    IF self.module = <<>> THEN FALSE
    ELSE \A k \in 1..Len(self.module) : Modul_ist_bestanden(self.module[k])

HasRecord(modul) == modul.pruefungsleistung # None

\* Mutant: every module with an assessment record counts.
Semester_berechne_ects_graded(self) ==
    SumSeq(MapEcts(SelectSeq(self.module, HasRecord)))

\* Mutant: every module counts, passed or not.
Semester_berechne_ects_all(self) ==
    SumSeq(MapEcts(self.module))

Semester_berechne_ects(self) ==
    SumSeq(MapEcts(SelectSeq(self.module, Modul_ist_bestanden)))

RECURSIVE MapNote(_)
MapNote(ms) ==
    IF ms = <<>> THEN <<>> ELSE <<Modul_get_note(Head(ms))>> \o MapNote(Tail(ms))

\* Mutant: the plain mean of the grades, not weighted by credits.
Semester_get_durchschnittsnote_unweighted(self) ==
    LET bestandene_module == SelectSeq(self.module, Modul_ist_bestanden)
    IN  IF bestandene_module = <<>> THEN None
        ELSE FloatDiv(SumSeq(MapNote(bestandene_module)), Len(bestandene_module))

\* Mutant: the division is not guarded.
Semester_get_durchschnittsnote_unguarded(self) ==
    LET bestandene_module == SelectSeq(self.module, Modul_ist_bestanden)
        weighted_sum == SumSeq(MapNoteEcts(bestandene_module))
        total_ects == SumSeq(MapEcts(bestandene_module))
    IN  IF bestandene_module = <<>> THEN None
        ELSE FloatDiv(weighted_sum, total_ects)

Semester_get_durchschnittsnote(self) ==
    LET bestandene_module == SelectSeq(self.module, Modul_ist_bestanden)
        weighted_sum == SumSeq(MapNoteEcts(bestandene_module))
        total_ects == SumSeq(MapEcts(bestandene_module))
    IN  IF bestandene_module = <<>> THEN None
        ELSE IF total_ects > 0 THEN FloatDiv(weighted_sum, total_ects) ELSE None

Semester_add_modul(self, modul) ==
    [self EXCEPT !.module = Append(@, modul)]

(***************************************************************************)
(* class Studiengang                                                        *)
(***************************************************************************)
Studiengang(name, ects_gesamt, semester) ==
    [kind |-> "Studiengang", name |-> name, ects_gesamt |-> ects_gesamt,
     semester |-> IF semester # <<>> THEN semester ELSE <<>>]

RECURSIVE MapBerechneEcts(_)
MapBerechneEcts(sems) ==
    IF sems = <<>> THEN <<>>
    ELSE <<Semester_berechne_ects(Head(sems))>> \o MapBerechneEcts(Tail(sems))

\* Mutant: the fraction, not the percentage.
Studiengang_berechne_gesamtfortschritt_fraction(self) ==
    LET erreichte_ects == SumSeq(MapBerechneEcts(self.semester))
    IN  IF self.ects_gesamt > 0
        THEN FloatDiv(erreichte_ects, self.ects_gesamt)
        ELSE Float(0, 1)

Studiengang_berechne_gesamtfortschritt(self) ==
    LET erreichte_ects == SumSeq(MapBerechneEcts(self.semester))
    IN  IF self.ects_gesamt > 0
        THEN FloatMul(FloatDiv(erreichte_ects, self.ects_gesamt), 100)
        ELSE Float(0, 1)

RECURSIVE ExtendBestandene(_)
ExtendBestandene(sems) ==
    IF sems = <<>> THEN <<>>
    ELSE SelectSeq(Head(sems).module, Modul_ist_bestanden)
            \o ExtendBestandene(Tail(sems))

RECURSIVE ExtendGraded(_)
ExtendGraded(sems) ==
    IF sems = <<>> THEN <<>>
    ELSE SelectSeq(Head(sems).module, HasRecord) \o ExtendGraded(Tail(sems))

\* Mutant: failed modules enter the mean too.
Studiengang_berechne_notenschnitt_graded(self) ==
    LET alle_module == ExtendGraded(self.semester)
        weighted_sum == SumSeq(MapNoteEcts(alle_module))
        total_ects == SumSeq(MapEcts(alle_module))
    IN  IF alle_module = <<>> THEN Float(0, 1)
        ELSE IF total_ects > 0 THEN FloatDiv(weighted_sum, total_ects)
             ELSE Float(0, 1)

Studiengang_berechne_notenschnitt(self) ==
    LET alle_module == ExtendBestandene(self.semester)
        weighted_sum == SumSeq(MapNoteEcts(alle_module))
        total_ects == SumSeq(MapEcts(alle_module))
    IN  IF alle_module = <<>> THEN Float(0, 1)
        ELSE IF total_ects > 0 THEN FloatDiv(weighted_sum, total_ects)
             ELSE Float(0, 1)

\* Mutant: only complete semesters count.
Studiengang_get_erreichte_ects_complete_only(self) ==
    SumSeq(MapBerechneEcts(SelectSeq(self.semester, Semester_ist_abgeschlossen)))

Studiengang_get_erreichte_ects(self) ==
    SumSeq(MapBerechneEcts(self.semester))

RECURSIVE FirstIncomplete(_, _)
FirstIncomplete(sems, k) ==
    IF k > Len(sems) THEN 0
    ELSE IF ~Semester_ist_abgeschlossen(sems[k]) THEN k
         ELSE FirstIncomplete(sems, k + 1)

\* Mutant: the incomplete semester of the lowest nummer.
Studiengang_aktuelles_semester_index_by_nummer(self) ==
    LET open == {k \in 1..Len(self.semester) :
                    ~Semester_ist_abgeschlossen(self.semester[k])}
    IN  IF open = {} THEN 0
        ELSE CHOOSE k \in open :
                \A l \in open :
                    \/ self.semester[k].nummer < self.semester[l].nummer
                    \/ (self.semester[k].nummer = self.semester[l].nummer /\ k <= l)

\* Mutant: the last incomplete semester in stored order.
Studiengang_aktuelles_semester_index_last(self) ==
    LET open == {k \in 1..Len(self.semester) :
                    ~Semester_ist_abgeschlossen(self.semester[k])}
    IN  IF open = {} THEN 0 ELSE CHOOSE k \in open : \A l \in open : l <= k

\* The position in self.semester of the semester returned, 0 for None.
Studiengang_aktuelles_semester_index(self) == FirstIncomplete(self.semester, 1)

Studiengang_get_aktuelles_semester(self) ==
    LET k == Studiengang_aktuelles_semester_index(self)
    IN  IF k = 0 THEN None ELSE self.semester[k]

\* Mutant: a semester of a smaller nummer than the first goes to the front.
Studiengang_add_semester_by_nummer(self, semester) ==
    IF self.semester # <<>> /\ semester.nummer < self.semester[1].nummer
    THEN [self EXCEPT !.semester = <<semester>> \o @]
    ELSE [self EXCEPT !.semester = Append(@, semester)]

Studiengang_add_semester(self, semester) ==
    [self EXCEPT !.semester = Append(@, semester)]

(***************************************************************************)
(* datetime.date: isoformat and fromisoformat                               *)
(***************************************************************************)
Dash == 0 - 1

date(year, month, day) == [year |-> year, month |-> month, day |-> day]

date_isoformat(d) ==
    << d.year \div 1000, (d.year \div 100) % 10, (d.year \div 10) % 10, d.year % 10,
       Dash, d.month \div 10, d.month % 10,
       Dash, d.day \div 10, d.day % 10 >>

IsLeap(y) == (y % 4 = 0 /\ y % 100 # 0) \/ y % 400 = 0

DaysInMonth(y, m) ==
    IF m = 2 THEN (IF IsLeap(y) THEN 29 ELSE 28)
    ELSE IF m \in {4, 6, 9, 11} THEN 30 ELSE 31

date_fromisoformat(str) ==
    IF Len(str) # 10 \/ str[5] # Dash \/ str[8] # Dash
          \/ \E k \in {1, 2, 3, 4, 6, 7, 9, 10} : str[k] \notin 0..9
    THEN Raised("ValueError")
    ELSE LET y == str[1] * 1000 + str[2] * 100 + str[3] * 10 + str[4]
             m == str[6] * 10 + str[7]
             d == str[9] * 10 + str[10]
         IN  IF y < 1 \/ m < 1 \/ m > 12 \/ d < 1 \/ d > DaysInMonth(y, m)
             THEN Raised("ValueError")
             ELSE [kind |-> "date", value |-> date(y, m, d)]

(***************************************************************************)
(* to_dict / from_dict.  A dict is a record of its keys; d[k] on a missing *)
(* key raises KeyError, d.get(k, default) yields the default.              *)
(***************************************************************************)
HasKey(data, k) == k \in DOMAIN data

Pruefungsleistung_to_dict(self) ==
    [note |-> self.note, datum |-> date_isoformat(self.datum), status |-> self.status]

\* Mutant: the status is not read back; the constructor's default stands.
Pruefungsleistung_from_dict_default_status(data) ==
    IF ~HasKey(data, "note") THEN Raised("KeyError")
    ELSE IF ~HasKey(data, "datum") THEN Raised("KeyError")
    ELSE LET datum == date_fromisoformat(data.datum)
         IN  IF IsRaised(datum) THEN datum
             ELSE Pruefungsleistung(data.note, datum.value, "bestanden")

\* cls(data["note"], datum, data["status"]), datum what fromisoformat gave
Pruefungsleistung_from_datum(data, datum) ==
    IF IsRaised(datum) THEN datum
    ELSE IF ~HasKey(data, "status") THEN Raised("KeyError")
    ELSE Pruefungsleistung(data.note, datum.value, data.status)

Pruefungsleistung_from_dict(data) ==
    IF ~HasKey(data, "note") THEN Raised("KeyError")
    ELSE IF ~HasKey(data, "datum") THEN Raised("KeyError")
    ELSE Pruefungsleistung_from_datum(data, date_fromisoformat(data.datum))

Modul_to_dict(self) ==
    [name |-> self.name, ects |-> self.ects,
     pruefungsleistung |->
        IF self.pruefungsleistung # None
        THEN Pruefungsleistung_to_dict(self.pruefungsleistung) ELSE None]

\* bool(x) of a value that is None or a dict: a dict is true unless empty.
Truthy(x) == x # None /\ DOMAIN x # {}

\* Mutant: the assessment record is not read back.
Modul_from_dict_no_record(data) ==
    IF ~HasKey(data, "name") THEN Raised("KeyError")
    ELSE IF ~HasKey(data, "ects") THEN Raised("KeyError")
    ELSE Modul(data.name, data.ects, None)

\* cls(data["name"], data["ects"], pruefungsleistung)
Modul_from_pruefungsleistung(data, pruefungsleistung) ==
    IF IsRaised(pruefungsleistung) THEN pruefungsleistung
    ELSE IF ~HasKey(data, "name") THEN Raised("KeyError")
    ELSE IF ~HasKey(data, "ects") THEN Raised("KeyError")
    ELSE Modul(data.name, data.ects, pruefungsleistung)

Modul_from_dict(data) ==
    Modul_from_pruefungsleistung(data,
        IF HasKey(data, "pruefungsleistung") /\ Truthy(data.pruefungsleistung)
        THEN Pruefungsleistung_from_dict(data.pruefungsleistung)
        ELSE None)

RECURSIVE MapModulToDict(_)
MapModulToDict(ms) ==
    IF ms = <<>> THEN <<>> ELSE <<Modul_to_dict(Head(ms))>> \o MapModulToDict(Tail(ms))

\* A list comprehension over from_dict: the list built, or the first exception
\* raised, which ends it.
List(items) == [kind |-> "list", items |-> items]

\* The comprehension with x first and then rest.
Cons(x, rest) ==
    IF IsRaised(x) THEN x
    ELSE IF IsRaised(rest) THEN rest
    ELSE List(<<x>> \o rest.items)

RECURSIVE MapModulFromDict(_)
MapModulFromDict(ds) ==
    IF ds = <<>> THEN List(<<>>)
    ELSE Cons(Modul_from_dict(Head(ds)), MapModulFromDict(Tail(ds)))

Semester_to_dict(self) ==
    [nummer |-> self.nummer, geplante_ects |-> self.geplante_ects,
     module |-> MapModulToDict(self.module)]

\* cls(data["nummer"], data["geplante_ects"], module)
Semester_from_module(data, module) ==
    IF IsRaised(module) THEN module
    ELSE IF ~HasKey(data, "nummer") THEN Raised("KeyError")
    ELSE IF ~HasKey(data, "geplante_ects") THEN Raised("KeyError")
    ELSE Semester(data.nummer, data.geplante_ects, module.items)

Semester_from_dict(data) ==
    Semester_from_module(data,
        MapModulFromDict(IF HasKey(data, "module") THEN data.module ELSE <<>>))

RECURSIVE MapSemesterToDict(_)
MapSemesterToDict(sems) ==
    IF sems = <<>> THEN <<>>
    ELSE <<Semester_to_dict(Head(sems))>> \o MapSemesterToDict(Tail(sems))

RECURSIVE MapSemesterFromDict(_)
MapSemesterFromDict(ds) ==
    IF ds = <<>> THEN List(<<>>)
    ELSE Cons(Semester_from_dict(Head(ds)), MapSemesterFromDict(Tail(ds)))

Studiengang_to_dict(self) ==
    [name |-> self.name, ects_gesamt |-> self.ects_gesamt,
     semester |-> MapSemesterToDict(self.semester)]

\* cls(data["name"], data["ects_gesamt"], semester)
Studiengang_from_semester(data, semester) ==
    IF IsRaised(semester) THEN semester
    ELSE IF ~HasKey(data, "name") THEN Raised("KeyError")
    ELSE IF ~HasKey(data, "ects_gesamt") THEN Raised("KeyError")
    ELSE Studiengang(data.name, data.ects_gesamt, semester.items)

Studiengang_from_dict(data) ==
    Studiengang_from_semester(data,
        MapSemesterFromDict(IF HasKey(data, "semester") THEN data.semester ELSE <<>>))

(***************************************************************************)
(* json.dump / json.load on the document of a Studiengang: objects, arrays,*)
(* numbers and strings map to themselves, None to null and back.           *)
(***************************************************************************)
JsonNull == [json |-> "null"]

RECURSIVE JsonDumpModule(_)
JsonDumpModule(ms) ==
    IF ms = <<>> THEN <<>>
    ELSE <<[Head(ms) EXCEPT !.pruefungsleistung = IF @ = None THEN JsonNull ELSE @]>>
            \o JsonDumpModule(Tail(ms))

RECURSIVE JsonDumpSemester(_)
JsonDumpSemester(sems) ==
    IF sems = <<>> THEN <<>>
    ELSE <<[Head(sems) EXCEPT !.module = JsonDumpModule(@)]>>
            \o JsonDumpSemester(Tail(sems))

json_dump(obj) == [obj EXCEPT !.semester = JsonDumpSemester(@)]

RECURSIVE JsonLoadModule(_)
JsonLoadModule(ms) ==
    IF ms = <<>> THEN <<>>
    ELSE <<IF HasKey(Head(ms), "pruefungsleistung")
           THEN [Head(ms) EXCEPT !.pruefungsleistung = IF @ = JsonNull THEN None ELSE @]
           ELSE Head(ms)>>
            \o JsonLoadModule(Tail(ms))

RECURSIVE JsonLoadSemester(_)
JsonLoadSemester(sems) ==
    IF sems = <<>> THEN <<>>
    ELSE <<IF HasKey(Head(sems), "module")
           THEN [Head(sems) EXCEPT !.module = JsonLoadModule(@)]
           ELSE Head(sems)>>
            \o JsonLoadSemester(Tail(sems))

json_load(doc) ==
    IF HasKey(doc, "semester")
    THEN [doc EXCEPT !.semester = JsonLoadSemester(@)]
    ELSE doc

NoFile == [kind |-> "NoFile"]

File(content) == [kind |-> "File", content |-> content]

\* The file save_to_file(self, filename) leaves at filename.
Studiengang_save_to_file(self) == File(json_dump(Studiengang_to_dict(self)))

\* load_from_file(filename) of an existing file f.
Studiengang_load_from_file(f) == Studiengang_from_dict(json_load(f.content))

(***************************************************************************)
(* The state machine.  The operations are the write accessors of the       *)
(* model (add_semester, add_modul, and the attribute assignments and the   *)
(* list removal the forms of gui.py perform on a module), with inputs the  *)
(* classes accept unchecked, and a persistence run as in                   *)
(* test_json_persistence: save, load, then remove the file; the Studiengang*)
(* is not edited while the file exists.                                    *)
(***************************************************************************)
(***************************************************************************)
(* The session.  st.session_state holds the Studiengang (the variable      *)
(* studiengang, None while the key is absent), selected_semester (0 while  *)
(* the key is absent) and the confirm_delete_{nummer}_{i} keys that are    *)
(* set.  meldung is what the last script run displayed: its kind, the      *)
(* write the run performed on the tree ("none" if it performed none) and   *)
(* the id of the module written.  loads counts the assignments to          *)
(* st.session_state.studiengang, next_id is the next fresh identity and    *)
(* clicks the number of user interactions so far.  delete_clicked records  *)
(* the modules whose "Delete" button was clicked in the session.           *)
(***************************************************************************)
Meldung(art, op, ziel) == [art |-> art, op |-> op, ziel |-> ziel]

NoSession ==
    [selected_semester |-> 0, confirm_delete |-> {}, meldung |-> Meldung("none", "none", 0),
     loads |-> 0, next_id |-> 1, clicks |-> 0, delete_clicked |-> {}]

(***************************************************************************)
(* The heap.  A list is an object: lists[a] is the list at address a, its   *)
(* items and the class of what it is a list of.                             *)
(* A Semester on the heap holds in module the address of its               *)
(* list of modules, a Studiengang in semester the address of its list of   *)
(* semesters (a list of indices into semester).  caller is the set of      *)
(* addresses of the lists the caller built itself, and ergebnis what the   *)
(* last call returned if it was a call of the derived calculations (None   *)
(* after a constructor, add_modul or add_semester).                         *)
(***************************************************************************)
EmptyHeap ==
    [lists |-> <<>>, semester |-> <<>>, studiengang |-> <<>>, caller |-> {},
     ergebnis |-> None]

RECURSIVE CountModule(_)
CountModule(sems) ==
    IF sems = <<>> THEN 0 ELSE Len(Head(sems).module) + CountModule(Tail(sems))

\* studiengang = Studiengang(name, ects_gesamt)
Construct(namen, targets) ==
    /\ studiengang \in {Studiengang(n, e, <<>>) : n \in namen, e \in targets}
    /\ datei = NoFile
    /\ geladen = None
    /\ session = NoSession
    /\ heap = EmptyHeap

\* studiengang.add_semester(Semester(nummer, geplante_ects))
add_semester(nummer, geplante_ects) ==
    /\ datei = NoFile
    /\ Len(studiengang.semester) < MaxSemester
    /\ studiengang' =
          Studiengang_add_semester(studiengang, Semester(nummer, geplante_ects, <<>>))
    /\ UNCHANGED <<datei, geladen, session, heap>>

\* studiengang.semester[i].add_modul(Modul(name, ects, pl))
add_modul(i, name, ects, pl) ==
    /\ datei = NoFile
    /\ CountModule(studiengang.semester) < MaxModule
    /\ studiengang' =
          [studiengang EXCEPT !.semester[i] = Semester_add_modul(@, Modul(name, ects, pl))]
    /\ UNCHANGED <<datei, geladen, session, heap>>

\* modul.pruefungsleistung = Pruefungsleistung(...), modul the j-th of semester i
set_pruefungsleistung(i, j, pl) ==
    /\ datei = NoFile
    /\ studiengang' = [studiengang EXCEPT !.semester[i].module[j].pruefungsleistung = pl]
    /\ UNCHANGED <<datei, geladen, session, heap>>

\* modul.name = new_name; modul.ects = new_ects
update_modul(i, j, new_name, new_ects) ==
    /\ datei = NoFile
    /\ studiengang' =
          [studiengang EXCEPT !.semester[i].module[j] =
                [@ EXCEPT !.name = new_name, !.ects = new_ects]]
    /\ UNCHANGED <<datei, geladen, session, heap>>

RemoveAt(s, j) == SubSeq(s, 1, j - 1) \o SubSeq(s, j + 1, Len(s))

\* semester.module.remove(modul), modul the j-th of semester i
remove_modul(i, j) ==
    /\ datei = NoFile
    /\ studiengang' = [studiengang EXCEPT !.semester[i].module = RemoveAt(@, j)]
    /\ UNCHANGED <<datei, geladen, session, heap>>

\* original.save_to_file(test_file)
save_to_file ==
    /\ datei = NoFile
    /\ datei' = Studiengang_save_to_file(studiengang)
    /\ UNCHANGED <<studiengang, geladen, session, heap>>

\* loaded = Studiengang.load_from_file(test_file)
load_from_file ==
    /\ datei # NoFile
    /\ geladen = None
    /\ geladen' = Studiengang_load_from_file(datei)
    /\ UNCHANGED <<studiengang, datei, session, heap>>

\* os.remove(test_file); loaded goes out of scope
remove_file ==
    /\ datei # NoFile
    /\ datei' = NoFile
    /\ geladen' = None
    /\ UNCHANGED <<studiengang, session, heap>>

\* The write accessors, with their inputs drawn from the given sets.
AddSemester(nummern, geplant) ==
    \E n \in nummern, g \in geplant : add_semester(n, g)

AddModul(namen, ectss, pls) ==
    \E i \in 1..Len(studiengang.semester), name \in namen, e \in ectss, pl \in pls \cup {None} :
        add_modul(i, name, e, pl)

SetPruefungsleistung(pls) ==
    \E i \in 1..Len(studiengang.semester) :
      \E j \in 1..Len(studiengang.semester[i].module) :
        \E pl \in pls : set_pruefungsleistung(i, j, pl)

UpdateModul(namen, ectss) ==
    \E i \in 1..Len(studiengang.semester) :
      \E j \in 1..Len(studiengang.semester[i].module) :
        \E name \in namen, e \in ectss : update_modul(i, j, name, e)

RemoveModul ==
    \E i \in 1..Len(studiengang.semester) :
      \E j \in 1..Len(studiengang.semester[i].module) : remove_modul(i, j)

(***************************************************************************)
(* Spec: the calculations.  The grades 1.0, 4.0, 4.1 with every status, two *)
(* credit values, the targets 0 and 180; the semesters are numbered in the *)
(* order they are added, as create_sample_data does.                       *)
(***************************************************************************)
Pruefungsleistungen ==
    {Pruefungsleistung(n, date(2023, 2, 15), st) :
        n \in {10, 40, 41}, st \in {"bestanden", "nicht bestanden"}}
ModulNamen == {"Test Module"}
EctsWerte == {5, 10}
GeplanteEcts == {30}

Init == Construct({"Test Program"}, {0, 180})

Next ==
    \/ AddSemester({Len(studiengang.semester) + 1}, GeplanteEcts)
    \/ AddModul(ModulNamen, EctsWerte, Pruefungsleistungen)
    \/ SetPruefungsleistung(Pruefungsleistungen)
    \/ UpdateModul(ModulNamen, EctsWerte)
    \/ RemoveModul

Spec == Init /\ [][Next]_vars

(***************************************************************************)
(* SpecZero: the calculations on modules whose credits are zero or         *)
(* negative, which models.py accepts (Modul.__init__ and from_dict check   *)
(* nothing): -5, 0 and 5 credits, passed with grade 2.0 or failed.         *)
(***************************************************************************)
NextZero ==
    \/ AddSemester({Len(studiengang.semester) + 1}, GeplanteEcts)
    \/ AddModul(ModulNamen, {-5, 0, 5},
                {Pruefungsleistung(20, date(2023, 2, 15), "bestanden")})
    \/ SetPruefungsleistung({Pruefungsleistung(50, date(2023, 2, 15), "nicht bestanden")})

SpecZero == Init /\ [][NextZero]_vars

(***************************************************************************)
(* SpecTree: the structure of the tree and its persistence.  Semesters of  *)
(* any nummer in any order, two module names, two dates, and the           *)
(* persistence run.                                                         *)
(***************************************************************************)
TreeNummern == {1, 2}
TreeModulNamen == {"Test Module", "Mathematik I"}
TreeEctsWerte == {5}
TreePruefungsleistungen ==
    {Pruefungsleistung(23, date(2023, 2, 15), "bestanden"),
     Pruefungsleistung(50, date(2024, 2, 29), "nicht bestanden")}

InitTree == Construct({"Test Program", "Informatik Bachelor"}, {180})

NextTree ==
    \/ AddSemester(TreeNummern, GeplanteEcts)
    \/ AddModul(TreeModulNamen, TreeEctsWerte, TreePruefungsleistungen)
    \/ SetPruefungsleistung(TreePruefungsleistungen)
    \/ UpdateModul(TreeModulNamen, TreeEctsWerte)
    \/ RemoveModul
    \/ save_to_file
    \/ load_from_file
    \/ remove_file

SpecTree == InitTree /\ [][NextTree]_vars

(***************************************************************************)
(* str.  The forms of gui.py strip and lower-case the names typed into     *)
(* them, so in the session model a module name is the sequence of its      *)
(* characters.                                                              *)
(***************************************************************************)
char_lower(c) ==
    LET upper == <<"A", "B", "C", "D", "E", "F", "G", "H", "I", "J", "K", "L", "M",
                   "N", "O", "P", "Q", "R", "S", "T", "U", "V", "W", "X", "Y", "Z">>
        lower == <<"a", "b", "c", "d", "e", "f", "g", "h", "i", "j", "k", "l", "m",
                   "n", "o", "p", "q", "r", "s", "t", "u", "v", "w", "x", "y", "z">>
    IN  IF \E k \in 1..26 : upper[k] = c
        THEN lower[CHOOSE k \in 1..26 : upper[k] = c]
        ELSE c

RECURSIVE str_lower(_)
str_lower(s) ==
    IF s = <<>> THEN <<>> ELSE <<char_lower(Head(s))>> \o str_lower(Tail(s))

RECURSIVE str_lstrip(_)
str_lstrip(s) ==
    IF s # <<>> /\ Head(s) = " " THEN str_lstrip(Tail(s)) ELSE s

RECURSIVE str_rstrip(_)
str_rstrip(s) ==
    IF s # <<>> /\ s[Len(s)] = " " THEN str_rstrip(SubSeq(s, 1, Len(s) - 1)) ELSE s

str_strip(s) == str_rstrip(str_lstrip(s))

(***************************************************************************)
(* data.py: the seeded default Studiengang.                                 *)
(***************************************************************************)
\* Mutant: the third semester is fully graded.
semester3_all_graded ==
    Semester(3, 30, <<
        Modul(<<"D", "a", "t", "e", "n", "b", "a", "n", "k", "e", "n">>,
              5, Pruefungsleistung(20, date(2024, 2, 15), "bestanden")),
        Modul(<<"W", "e", "b", "-", "E", "n", "t", "w", "i", "c", "k", "l", "u", "n", "g">>,
              5, Pruefungsleistung(17, date(2024, 2, 20), "bestanden"))>>)

semester3 ==
    Semester(3, 30, <<
        \* "Datenbanken"
        Modul(<<"D", "a", "t", "e", "n", "b", "a", "n", "k", "e", "n">>,
              5, Pruefungsleistung(20, date(2024, 2, 15), "bestanden")),
        \* "Web-Entwicklung"
        Modul(<<"W", "e", "b", "-", "E", "n", "t", "w", "i", "c", "k", "l", "u", "n", "g">>,
              5, Pruefungsleistung(17, date(2024, 2, 20), "bestanden")),
        \* "Algorithmen"
        Modul(<<"A", "l", "g", "o", "r", "i", "t", "h", "m", "e", "n">>,
              5, None),
        \* "Projektmanagement"
        Modul(<<"P", "r", "o", "j", "e", "k", "t", "m", "a", "n", "a", "g", "e", "m", "e", "n", "t">>,
              5, None)>>)

create_sample_data ==
    Studiengang("Informatik Bachelor", 180,
        <<
         \* semester1
         Semester(1, 30, <<
             \* "Grundlagen Programmierung"
             Modul(<<"G", "r", "u", "n", "d", "l", "a", "g", "e", "n", " ", "P", "r", "o", "g", "r", "a", "m", "m", "i", "e", "r", "u", "n", "g">>,
                   5, Pruefungsleistung(20, date(2023, 2, 15), "bestanden")),
             \* "Mathematik I"
             Modul(<<"M", "a", "t", "h", "e", "m", "a", "t", "i", "k", " ", "I">>,
                   5, Pruefungsleistung(23, date(2023, 2, 20), "bestanden")),
             \* "Theoretische Informatik"
             Modul(<<"T", "h", "e", "o", "r", "e", "t", "i", "s", "c", "h", "e", " ", "I", "n", "f", "o", "r", "m", "a", "t", "i", "k">>,
                   5, Pruefungsleistung(17, date(2023, 2, 25), "bestanden")),
             \* "Betriebssysteme"
             Modul(<<"B", "e", "t", "r", "i", "e", "b", "s", "s", "y", "s", "t", "e", "m", "e">>,
                   5, Pruefungsleistung(20, date(2023, 3, 1), "bestanden"))>>),
          \* semester2
         Semester(2, 30, <<
             \* "Datenstrukturen"
             Modul(<<"D", "a", "t", "e", "n", "s", "t", "r", "u", "k", "t", "u", "r", "e", "n">>,
                   5, Pruefungsleistung(23, date(2023, 7, 15), "bestanden")),
             \* "Mathematik II"
             Modul(<<"M", "a", "t", "h", "e", "m", "a", "t", "i", "k", " ", "I", "I">>,
                   5, Pruefungsleistung(27, date(2023, 7, 20), "bestanden")),
             \* "Softwareengineering"
             Modul(<<"S", "o", "f", "t", "w", "a", "r", "e", "e", "n", "g", "i", "n", "e", "e", "r", "i", "n", "g">>,
                   5, Pruefungsleistung(17, date(2023, 7, 25), "bestanden")),
             \* "Rechnernetze"
             Modul(<<"R", "e", "c", "h", "n", "e", "r", "n", "e", "t", "z", "e">>,
                   5, Pruefungsleistung(20, date(2023, 8, 1), "bestanden"))>>),
          semester3, \* semester4
         Semester(4, 30, <<
             \* "Machine Learning"
             Modul(<<"M", "a", "c", "h", "i", "n", "e", " ", "L", "e", "a", "r", "n", "i", "n", "g">>,
                   5, None),
             \* "IT-Sicherheit"
             Modul(<<"I", "T", "-", "S", "i", "c", "h", "e", "r", "h", "e", "i", "t">>,
                   5, None),
             \* "Mobile Entwicklung"
             Modul(<<"M", "o", "b", "i", "l", "e", " ", "E", "n", "t", "w", "i", "c", "k", "l", "u", "n", "g">>,
                   5, None),
             \* "Wahlpflichtmodul 1"
             Modul(<<"W", "a", "h", "l", "p", "f", "l", "i", "c", "h", "t", "m", "o", "d", "u", "l", " ", "1">>,
                   5, None)>>),
          \* semester5
         Semester(5, 30, <<
             \* "Verteilte Systeme"
             Modul(<<"V", "e", "r", "t", "e", "i", "l", "t", "e", " ", "S", "y", "s", "t", "e", "m", "e">>,
                   5, None),
             \* "Wahlpflichtmodul 2"
             Modul(<<"W", "a", "h", "l", "p", "f", "l", "i", "c", "h", "t", "m", "o", "d", "u", "l", " ", "2">>,
                   5, None),
             \* "Wahlpflichtmodul 3"
             Modul(<<"W", "a", "h", "l", "p", "f", "l", "i", "c", "h", "t", "m", "o", "d", "u", "l", " ", "3">>,
                   5, None),
             \* "Seminar"
             Modul(<<"S", "e", "m", "i", "n", "a", "r">>,
                   5, None)>>),
          \* semester6
         Semester(6, 30, <<
             \* "Praktikum"
             Modul(<<"P", "r", "a", "k", "t", "i", "k", "u", "m">>,
                   10, None),
             \* "Bachelorarbeit"
             Modul(<<"B", "a", "c", "h", "e", "l", "o", "r", "a", "r", "b", "e", "i", "t">>,
                   10, None),
             \* "Kolloquium"
             Modul(<<"K", "o", "l", "l", "o", "q", "u", "i", "u", "m">>,
                   5, None)>>)>>)

\* save_sample_data(): the file it leaves.
save_sample_data == Studiengang_save_to_file(create_sample_data)

(***************************************************************************)
(* gui.py: validation.                                                      *)
(***************************************************************************)
\* Mutant: the credits are not validated.
validate_module_input_name_only(name, ects) ==
    IF name = <<>> \/ str_strip(name) = <<>>
    THEN [is_valid |-> FALSE, error_msg |-> "Module name cannot be empty."]
    ELSE IF Len(str_strip(name)) < 2
    THEN [is_valid |-> FALSE, error_msg |-> "Module name must be at least 2 characters long."]
    ELSE IF Len(str_strip(name)) > 100
    THEN [is_valid |-> FALSE, error_msg |-> "Module name must be less than 100 characters."]
    ELSE [is_valid |-> TRUE, error_msg |-> ""]

validate_module_input(name, ects) ==
    IF name = <<>> \/ str_strip(name) = <<>>
    THEN [is_valid |-> FALSE, error_msg |-> "Module name cannot be empty."]
    ELSE IF Len(str_strip(name)) < 2
    THEN [is_valid |-> FALSE, error_msg |-> "Module name must be at least 2 characters long."]
    ELSE IF Len(str_strip(name)) > 100
    THEN [is_valid |-> FALSE, error_msg |-> "Module name must be less than 100 characters."]
    ELSE IF ects < 1 \/ ects > 30
    THEN [is_valid |-> FALSE, error_msg |-> "ECTS must be between 1 and 30."]
    ELSE [is_valid |-> TRUE, error_msg |-> ""]

\* A grade is a number of tenths, for which round(grade * 10) = grade * 10 holds
\* on the whole scale (1.0 .. 5.0 in steps of 0.1 as Python computes it).
validate_grade_input(grade) ==
    IF grade < 10 \/ grade > 50
    THEN [is_valid |-> FALSE, error_msg |-> "Grade must be between 1.0 and 5.0."]
    ELSE [is_valid |-> TRUE, error_msg |-> ""]

(***************************************************************************)
(* Object identity.  A Modul of the session carries id, its identity:      *)
(* Modul defines no __eq__, so == and != on modules and list.remove        *)
(* compare by it.  Every construction yields a new id.                      *)
(***************************************************************************)
WithId(m, id) ==
    [kind |-> m.kind, name |-> m.name, ects |-> m.ects,
     pruefungsleistung |-> m.pruefungsleistung, id |-> id]

RECURSIVE IdModule(_, _)
IdModule(ms, first) ==
    IF ms = <<>> THEN <<>>
    ELSE <<WithId(Head(ms), first)>> \o IdModule(Tail(ms), first + 1)

RECURSIVE IdSemester(_, _)
IdSemester(sems, first) ==
    IF sems = <<>> THEN <<>>
    ELSE <<[Head(sems) EXCEPT !.module = IdModule(@, first)]>>
            \o IdSemester(Tail(sems), first + Len(Head(sems).module))

\* The objects of a tree just built by load_from_file or create_sample_data.
Objects(s, first) == [s EXCEPT !.semester = IdSemester(@, first)]

\* Mutant: the first module of the same name and credits is removed.
list_remove_by_value(ms, modul) ==
    LET same == {k \in 1..Len(ms) : ms[k].name = modul.name /\ ms[k].ects = modul.ects}
    IN  IF same = {} THEN Raised("ValueError")
        ELSE List(RemoveAt(ms, CHOOSE k \in same : \A l \in same : k <= l))

\* ms.remove(modul): the first element equal to modul, that is, identical to it.
list_remove(ms, modul) ==
    LET same == {k \in 1..Len(ms) : ms[k].id = modul.id}
    IN  IF same = {} THEN Raised("ValueError")
        ELSE List(RemoveAt(ms, CHOOSE k \in same : \A l \in same : k <= l))

(***************************************************************************)
(* The script runs of a session and save_data().                            *)
(***************************************************************************)
\* The state a script run works on; exception is what ended the run early.
Current ==
    [studiengang |-> studiengang, datei |-> datei, session |-> session,
     exception |-> None]

\* The state a script run leaves.
Run(r) ==
    /\ studiengang' = r.studiengang
    /\ datei' = r.datei
    /\ session' = r.session
    /\ UNCHANGED <<geladen, heap>>

\* json.dump stopped part-way: what is left in the file does not parse.
JsonTruncated == [json |-> "truncated"]

\* What open(filepath, 'w') and json.dump can do to a save.
SaveOutcomes == {"written", "open fails", "write fails"}

\* Mutant: success is reported and nothing is written.
save_data_unwritten(r, outcome) ==
    IF outcome = "written" THEN [ok |-> TRUE, datei |-> r.datei]
    ELSE IF outcome = "open fails" THEN [ok |-> FALSE, datei |-> r.datei]
    ELSE [ok |-> FALSE, datei |-> File(JsonTruncated)]

\* save_data(): True and the file written, or the exception caught and False.
save_data(r, outcome) ==
    IF outcome = "written"
    THEN [ok |-> TRUE, datei |-> Studiengang_save_to_file(r.studiengang)]
    ELSE IF outcome = "open fails" THEN [ok |-> FALSE, datei |-> r.datei]
    ELSE [ok |-> FALSE, datei |-> File(JsonTruncated)]

\* Studiengang.load_from_file on the file of the session.
session_load_from_file(f) ==
    IF f.content = JsonTruncated THEN Raised("JSONDecodeError")
    ELSE Studiengang_load_from_file(f)

\* The Studiengang of a new session: loaded if the file exists, else the sample.
load_or_create(f) ==
    IF f # NoFile THEN session_load_from_file(f) ELSE create_sample_data

\* st.session_state.studiengang = built, or the exception that built is.
set_studiengang(r, built) ==
    IF IsRaised(built) THEN [r EXCEPT !.exception = built]
    ELSE [r EXCEPT !.studiengang = Objects(built, r.session.next_id),
                   !.session.loads = @ + 1,
                   !.session.next_id = @ + CountModule(built.semester)]

\* st.session_state.selected_semester = the nummer of aktuelles_semester, or 1.
set_selected_semester(r, aktuelles_semester) ==
    [r EXCEPT !.session.selected_semester =
          IF aktuelles_semester # None THEN aktuelles_semester.nummer ELSE 1]

\* Mutant: the key is never found, so every script run loads or creates.
has_studiengang_never(r) == FALSE

\* 'studiengang' in st.session_state
has_studiengang(r) == r.studiengang # None

\* if 'selected_semester' not in st.session_state: ...; skipped when
\* load_from_file raised.
init_selected_semester(r) ==
    IF r.exception # None \/ r.session.selected_semester # 0 THEN r
    ELSE set_selected_semester(r, Studiengang_get_aktuelles_semester(r.studiengang))

\* init_session_state() on the state r of the script run.
init_session_state(r) ==
    IF has_studiengang(r) THEN init_selected_semester(r)
    ELSE init_selected_semester(set_studiengang(r, load_or_create(r.datei)))

\* show_semester_modules: the index of the first semester whose nummer is the
\* selected one, 0 if there is none ("Ausgewaehltes Semester nicht gefunden").
selected_semester(r) ==
    LET found == {i \in 1..Len(r.studiengang.semester) :
                     r.studiengang.semester[i].nummer = r.session.selected_semester}
    IN  IF found = {} THEN 0 ELSE CHOOSE i \in found : \A k \in found : i <= k

\* The run ends with a message and the tree as it was.
Rejected(r, art) == [r EXCEPT !.session.meldung = Meldung(art, "none", 0)]

\* Mutant: the tree is put back when save_data() returns False.
Written_rolled_back(r, tree, op, ziel, outcome) ==
    LET saved == save_data([r EXCEPT !.studiengang = tree], outcome)
    IN  [r EXCEPT !.studiengang = IF saved.ok THEN tree ELSE r.studiengang,
                  !.datei = saved.datei,
                  !.session.meldung =
                       Meldung(IF saved.ok THEN "success" ELSE "error", op, ziel)]

\* The run wrote the tree (op on the module ziel) and called save_data().
Written(r, tree, op, ziel, outcome) ==
    LET saved == save_data([r EXCEPT !.studiengang = tree], outcome)
    IN  [r EXCEPT !.studiengang = tree,
                  !.datei = saved.datei,
                  !.session.meldung =
                       Meldung(IF saved.ok THEN "success" ELSE "error", op, ziel)]

\* The form "Add Module" of semester i, submitted.
show_add_module_form_for_semester(r, i, module_name, ects, has_grade, grade, exam_date, outcome) ==
    LET semester == r.studiengang.semester[i]
        pruefungsleistung == Pruefungsleistung(grade, exam_date, "bestanden")
        new_module ==
            WithId(Modul(str_strip(module_name), ects,
                         IF has_grade THEN pruefungsleistung ELSE None),
                   r.session.next_id)
        tree == [r.studiengang EXCEPT !.semester[i] = Semester_add_modul(@, new_module)]
    IN  IF ~validate_module_input(module_name, ects).is_valid
        THEN Rejected(r, "error")
        ELSE IF \E k \in 1..Len(semester.module) :
                    str_strip(str_lower(semester.module[k].name))
                        = str_strip(str_lower(module_name))
        THEN Rejected(r, "error")
        ELSE IF has_grade /\ ~validate_grade_input(grade).is_valid
        THEN Rejected(r, "error")
        ELSE Written([r EXCEPT !.session.next_id = @ + 1], tree, "add",
                     r.session.next_id, outcome)

\* Mutant: every module of semester i is offered for a grade.
modules_without_grades_all(r, i) ==
    [k \in 1..Len(r.studiengang.semester[i].module) |-> k]

\* The indices of the modules of semester i that have no record.
modules_without_grades(r, i) ==
    LET ms == r.studiengang.semester[i].module
    IN  SelectSeq([k \in 1..Len(ms) |-> k],
                  LAMBDA k : ms[k].pruefungsleistung = None)

\* The form "Record Grade" of semester i, submitted with the n-th option of the
\* select box; the module written is the first without a record of that name.
show_grade_recording_form_for_semester(r, i, n, grade, exam_date, outcome) ==
    LET ms == r.studiengang.semester[i].module
        options == modules_without_grades(r, i)
        selected_module_name == ms[options[n]].name
        named == {k \in 1..Len(options) : ms[options[k]].name = selected_module_name}
        j == options[CHOOSE k \in named : \A l \in named : k <= l]
        status == IF grade <= 40 THEN "bestanden" ELSE "nicht bestanden"
        tree == [r.studiengang EXCEPT !.semester[i].module[j].pruefungsleistung =
                        Pruefungsleistung(grade, exam_date, status)]
    IN  IF ~validate_grade_input(grade).is_valid
        THEN Rejected(r, "error")
        ELSE Written(r, tree, "grade", ms[j].id, outcome)

\* Mutant: the update does not look for another module of that name.
show_edit_module_form_for_semester_update_unchecked(r, i, j, new_name, new_ects, outcome) ==
    LET modul == r.studiengang.semester[i].module[j]
        tree == [r.studiengang EXCEPT !.semester[i].module[j] =
                        [@ EXCEPT !.name = str_strip(new_name), !.ects = new_ects]]
    IN  IF ~validate_module_input(new_name, new_ects).is_valid
        THEN Rejected(r, "error")
        ELSE Written(r, tree, "edit", modul.id, outcome)

\* The form of module j of semester i, submitted with "Update".
show_edit_module_form_for_semester_update(r, i, j, new_name, new_ects, outcome) ==
    LET semester == r.studiengang.semester[i]
        modul == semester.module[j]
        tree == [r.studiengang EXCEPT !.semester[i].module[j] =
                        [@ EXCEPT !.name = str_strip(new_name), !.ects = new_ects]]
    IN  IF ~validate_module_input(new_name, new_ects).is_valid
        THEN Rejected(r, "error")
        ELSE IF \E k \in 1..Len(semester.module) :
                    /\ semester.module[k].id # modul.id
                    /\ str_strip(str_lower(semester.module[k].name))
                          = str_strip(str_lower(new_name))
        THEN Rejected(r, "error")
        ELSE Written(r, tree, "edit", modul.id, outcome)

\* The form of module j of semester i, submitted with "Delete".
show_edit_module_form_for_semester_delete(r, i, j, outcome) ==
    LET semester == r.studiengang.semester[i]
        modul == semester.module[j]
        key == <<semester.nummer, j - 1>>
        removed == list_remove(semester.module, modul)
        tree == [r.studiengang EXCEPT !.semester[i].module = removed.items]
        clicked == [r EXCEPT !.session.delete_clicked = @ \cup {modul.id}]
    IN  IF key \in r.session.confirm_delete
        THEN IF IsRaised(removed) THEN Rejected(clicked, "exception")
             ELSE Written(clicked, tree, "delete", modul.id, outcome)
        ELSE [clicked EXCEPT !.session.confirm_delete = @ \cup {key},
                             !.session.meldung = Meldung("warning", "none", 0)]

(***************************************************************************)
(* The script runs.  main.py creates the sample file if there is none and  *)
(* starts the dashboard; every script run of gui.py calls                  *)
(* init_session_state() and renders, and a run started by a click then     *)
(* executes the handler of the widget clicked, unless load_from_file       *)
(* raised.  A widget is acted on in the semester the page shows.           *)
(***************************************************************************)
\* main.py: create_sample_data_if_needed(), before the dashboard starts.
create_sample_data_if_needed(outcome) ==
    /\ studiengang = None
    /\ datei' = IF datei # NoFile THEN datei
                ELSE IF outcome = "written" THEN save_sample_data
                ELSE IF outcome = "open fails" THEN datei
                ELSE File(JsonTruncated)
    /\ UNCHANGED <<studiengang, geladen, session, heap>>

\* The first script run of a session: main() without a click.
main ==
    /\ studiengang = None
    /\ \E r \in {init_session_state(Current)} :
          Run(IF r.exception # None THEN Rejected(r, "exception") ELSE r)

\* A click needs a page rendered by an earlier run.
CanClick == studiengang # None /\ session.clicks < MaxClicks

\* The state after init_session_state() of a script run started by a click.
Clicked == init_session_state([Current EXCEPT !.session.clicks = @ + 1])

\* show_semester_overview: the button of semester i.
select_semester ==
    /\ CanClick
    /\ \E i \in 1..Len(studiengang.semester) :
          \E r \in {Clicked} :
              Run(IF r.exception # None THEN Rejected(r, "exception")
                  ELSE [r EXCEPT !.session.selected_semester =
                                     r.studiengang.semester[i].nummer,
                                 !.session.meldung = Meldung("none", "none", 0)])

submit_add_module(namen, ectss, noten, daten) ==
    /\ CanClick
    /\ selected_semester(Current) # 0
    /\ \E module_name \in namen, ects \in ectss, has_grade \in BOOLEAN,
          grade \in noten, exam_date \in daten, outcome \in SaveOutcomes :
          \E r \in {Clicked} :
              Run(IF r.exception # None THEN Rejected(r, "exception")
                  ELSE show_add_module_form_for_semester(
                           r, selected_semester(r), module_name, ects, has_grade,
                           grade, exam_date, outcome))

submit_record_grade(noten, daten) ==
    /\ CanClick
    /\ selected_semester(Current) # 0
    /\ \E n \in 1..Len(modules_without_grades(Current, selected_semester(Current))),
          grade \in noten, exam_date \in daten, outcome \in SaveOutcomes :
          \E r \in {Clicked} :
              Run(IF r.exception # None THEN Rejected(r, "exception")
                  ELSE show_grade_recording_form_for_semester(
                           r, selected_semester(r), n, grade, exam_date, outcome))

submit_update_module(namen, ectss) ==
    /\ CanClick
    /\ selected_semester(Current) # 0
    /\ \E j \in 1..Len(studiengang.semester[selected_semester(Current)].module),
          new_name \in namen, new_ects \in ectss, outcome \in SaveOutcomes :
          \E r \in {Clicked} :
              Run(IF r.exception # None THEN Rejected(r, "exception")
                  ELSE show_edit_module_form_for_semester_update(
                           r, selected_semester(r), j, new_name, new_ects, outcome))

click_delete_module ==
    /\ CanClick
    /\ selected_semester(Current) # 0
    /\ \E j \in 1..Len(studiengang.semester[selected_semester(Current)].module),
          outcome \in SaveOutcomes :
          \E r \in {Clicked} :
              Run(IF r.exception # None THEN Rejected(r, "exception")
                  ELSE show_edit_module_form_for_semester_delete(
                           r, selected_semester(r), j, outcome))

\* The browser page is reloaded: a new session with an empty session_state.
new_session ==
    /\ studiengang # None
    /\ session.clicks < MaxClicks
    /\ studiengang' = None
    /\ session' = [NoSession EXCEPT !.next_id = session.next_id,
                                    !.clicks = session.clicks + 1]
    /\ UNCHANGED <<datei, geladen, heap>>

(***************************************************************************)
(* SpecGui: sessions of the dashboard.  At the start there is no file, or  *)
(* the file of a Studiengang saved through models.py, in which one         *)
(* semester holds two modules of one name and one credit value.  The names *)
(* typed are "KI", " ki " and "K".                                           *)
(***************************************************************************)
GuiNamen == {<<"K", "I">>, <<" ", "k", "i", " ">>, <<"K">>}

GespeicherterStudiengang ==
    Studiengang("Test Program", 180,
        <<Semester(1, 30,
             <<Modul(<<"K", "I">>, 5, Pruefungsleistung(23, date(2023, 2, 15), "bestanden")),
               Modul(<<"K", "I">>, 5, None)>>),
          Semester(2, 30, <<Modul(<<"K", "I">>, 5, None)>>)>>)

InitGui ==
    /\ studiengang = None
    /\ datei \in {NoFile, Studiengang_save_to_file(GespeicherterStudiengang)}
    /\ geladen = None
    /\ session = NoSession
    /\ heap = EmptyHeap

NextGui ==
    \/ \E outcome \in SaveOutcomes : create_sample_data_if_needed(outcome)
    \/ main
    \/ select_semester
    \/ submit_add_module(GuiNamen, {5}, {23, 50}, {date(2024, 2, 29)})
    \/ submit_record_grade({23, 50}, {date(2024, 2, 29)})
    \/ submit_update_module(GuiNamen, {5})
    \/ click_delete_module
    \/ new_session

SpecGui == InitGui /\ [][NextGui]_vars

(***************************************************************************)
(* SpecForm: the forms of a session on the saved Studiengang, submitted    *)
(* with what the validation is there to refuse as well: the names "K",     *)
(* " ", "", one of 101 characters, " AB ", "KI" and " ki ", 0 and 31       *)
(* credits, the grades 0.9 and 5.1.  The file at the start is that of the *)
(* saved Studiengang or that of one whose two semesters both have the      *)
(* nummer 1, the first complete and the second not, or that of one whose   *)
(* only semester holds a module of -5 credits without a record, which      *)
(* models.py accepts.                                                      *)
(***************************************************************************)
FormNamen ==
    {<<"K">>, <<" ">>, <<>>, [k \in 1..101 |-> "x"], <<" ", "A", "B", " ">>,
     <<"K", "I">>, <<" ", "k", "i", " ">>}

InitForm ==
    /\ studiengang = None
    /\ datei \in
          {Studiengang_save_to_file(GespeicherterStudiengang),
           Studiengang_save_to_file(
               Studiengang("Test Program", 180,
                   <<Semester(1, 30,
                        <<Modul(<<"K", "I">>, 5,
                                Pruefungsleistung(23, date(2023, 2, 15), "bestanden"))>>),
                     Semester(1, 30, <<Modul(<<"K", "I">>, 5, None)>>)>>)),
           Studiengang_save_to_file(
               Studiengang("Test Program", 180,
                   <<Semester(1, 30,
                        <<Modul(<<"K", "I">>, 5,
                                Pruefungsleistung(23, date(2023, 2, 15), "bestanden")),
                          Modul(<<"A", "B">>, -5, None)>>)>>))}
    /\ geladen = None
    /\ session = NoSession
    /\ heap = EmptyHeap

NextForm ==
    \/ main
    \/ select_semester
    \/ submit_add_module(FormNamen, {0, 5, 31}, {9, 23, 51}, {date(2024, 2, 29)})
    \/ submit_record_grade({9, 23, 51}, {date(2024, 2, 29)})
    \/ submit_update_module(FormNamen, {0, 5, 31})

SpecForm == InitForm /\ [][NextForm]_vars

(***************************************************************************)
(* SpecDelete: deleting modules of the saved Studiengang.  A session       *)
(* starts new, or it is taken up after its first script run and one click  *)
(* on "Delete" of the first module of semester 1, with the clicks counted  *)
(* from there.  Modules are added and renamed with the names of SpecForm.  *)
(***************************************************************************)
InitDelete ==
    /\ datei = Studiengang_save_to_file(GespeicherterStudiengang)
    /\ geladen = None
    /\ heap = EmptyHeap
    /\ \/ studiengang = None /\ session = NoSession
       \/ \E r \in {show_edit_module_form_for_semester_delete(
                        init_session_state([studiengang |-> None, datei |-> datei,
                                            session |-> NoSession, exception |-> None]),
                        1, 1, "written")} :
             /\ studiengang = r.studiengang
             /\ session = [r.session EXCEPT !.clicks = 0]

NextDelete ==
    \/ main
    \/ select_semester
    \/ click_delete_module
    \/ submit_add_module(FormNamen, {5}, {23}, {date(2024, 2, 29)})
    \/ submit_update_module(FormNamen, {5})

SpecDelete == InitDelete /\ [][NextDelete]_vars

(***************************************************************************)
(* SpecLoad: load_from_file on a file that was edited after it was saved.  *)
(* The edits delete a key of an object of the document or put another      *)
(* string in the place of a date; the file is then loaded.                  *)
(***************************************************************************)
\* del d[k] on a JSON object d
DelKey(d, k) == [x \in DOMAIN d \ {k} |-> d[x]]

\* The document in the file, and whether load_from_file has not read it yet.
Editable == datei # NoFile /\ geladen = None

HasSemester(doc) == HasKey(doc, "semester")

HasModule(doc, i) == HasSemester(doc) /\ HasKey(doc.semester[i], "module")

HasPruefungsleistung(doc, i, j) ==
    /\ HasModule(doc, i)
    /\ HasKey(doc.semester[i].module[j], "pruefungsleistung")
    /\ doc.semester[i].module[j].pruefungsleistung # JsonNull

\* The file with its document replaced.
edit_file(doc) ==
    /\ datei' = File(doc)
    /\ UNCHANGED <<studiengang, geladen, session, heap>>

\* A key of the Studiengang object is deleted.
del_studiengang_key ==
    /\ Editable
    /\ \E k \in DOMAIN datei.content : edit_file(DelKey(datei.content, k))

\* A key of a semester object is deleted.
del_semester_key ==
    /\ Editable
    /\ HasSemester(datei.content)
    /\ \E i \in 1..Len(datei.content.semester) :
          \E k \in DOMAIN datei.content.semester[i] :
              edit_file([datei.content EXCEPT !.semester[i] = DelKey(@, k)])

\* A key of a module object is deleted.
del_modul_key ==
    /\ Editable
    /\ HasSemester(datei.content)
    /\ \E i \in 1..Len(datei.content.semester) :
          /\ HasModule(datei.content, i)
          /\ \E j \in 1..Len(datei.content.semester[i].module) :
                \E k \in DOMAIN datei.content.semester[i].module[j] :
                    edit_file([datei.content EXCEPT
                                  !.semester[i].module[j] = DelKey(@, k)])

\* A key of a pruefungsleistung object is deleted.
del_pruefungsleistung_key ==
    /\ Editable
    /\ HasSemester(datei.content)
    /\ \E i \in 1..Len(datei.content.semester) :
          /\ HasModule(datei.content, i)
          /\ \E j \in 1..Len(datei.content.semester[i].module) :
                /\ HasPruefungsleistung(datei.content, i, j)
                /\ \E k \in DOMAIN datei.content.semester[i].module[j].pruefungsleistung :
                      edit_file([datei.content EXCEPT
                                    !.semester[i].module[j].pruefungsleistung =
                                        DelKey(@, k)])

\* The datum of a pruefungsleistung object is replaced by "2023-13-01" or
\* "2023", strings that are not a date as YYYY-MM-DD.
set_datum ==
    /\ Editable
    /\ HasSemester(datei.content)
    /\ \E i \in 1..Len(datei.content.semester) :
          /\ HasModule(datei.content, i)
          /\ \E j \in 1..Len(datei.content.semester[i].module) :
                /\ HasPruefungsleistung(datei.content, i, j)
                /\ HasKey(datei.content.semester[i].module[j].pruefungsleistung, "datum")
                /\ \E str \in {<<2, 0, 2, 3, Dash, 1, 3, Dash, 0, 1>>, <<2, 0, 2, 3>>} :
                      edit_file([datei.content EXCEPT
                                    !.semester[i].module[j].pruefungsleistung.datum = str])

\* The Studiengang whose file is edited: test_json_persistence's, with one
\* graded module.
LoadStudiengang ==
    Studiengang("Test Program", 180,
        <<Semester(1, 30,
             <<Modul("Test Module", 5,
                     Pruefungsleistung(23, date(2023, 2, 15), "bestanden"))>>)>>)

InitLoad ==
    /\ studiengang = LoadStudiengang
    /\ datei = NoFile
    /\ geladen = None
    /\ session = NoSession
    /\ heap = EmptyHeap

NextLoad ==
    \/ save_to_file
    \/ del_studiengang_key
    \/ del_semester_key
    \/ del_modul_key
    \/ del_pruefungsleistung_key
    \/ set_datum
    \/ load_from_file
    \/ remove_file

SpecLoad == InitLoad /\ [][NextLoad]_vars

(***************************************************************************)
(* SpecOwn: a caller of models.py that builds lists, passes them to the    *)
(* constructors of Semester and Studiengang, and appends through add_modul *)
(* and add_semester.  Lists are objects with an address, so that a list    *)
(* two objects hold is seen.                                                *)
(***************************************************************************)
OwnModule ==
    {Modul("Test Module", 5, None),
     Modul("Test Module", 5, Pruefungsleistung(20, date(2023, 2, 15), "bestanden"))}

\* l = [] or l = [Modul(...)]: a new list of modules, held by the caller.
caller_list_of_module ==
    /\ Len(heap.lists) < MaxListen
    /\ \E items \in {<<>>} \cup {<<m>> : m \in OwnModule} :
          heap' = [heap EXCEPT !.lists = Append(@, [typ |-> "Modul", items |-> items]),
                               !.caller = @ \cup {Len(heap.lists) + 1}]
    /\ UNCHANGED <<studiengang, datei, geladen, session>>

\* l = [] or l = [semester]: a new list of semesters, held by the caller.
caller_list_of_semester ==
    /\ Len(heap.lists) < MaxListen
    /\ \E items \in {<<>>} \cup {<<k>> : k \in 1..Len(heap.semester)} :
          heap' = [heap EXCEPT !.lists = Append(@, [typ |-> "Semester", items |-> items]),
                               !.caller = @ \cup {Len(heap.lists) + 1}]
    /\ UNCHANGED <<studiengang, datei, geladen, session>>

\* The lists of the caller that hold objects of class typ.
CallerLists(typ) == {a \in heap.caller : heap.lists[a].typ = typ}

\* x or []: the list at address a if it has elements (a = 0 is None); else a
\* new empty list, whose address is the next free one.
OrNewList(a) ==
    IF a # 0 /\ heap.lists[a].items # <<>> THEN a ELSE Len(heap.lists) + 1

\* The lists after x or [], for a list of typ.
ListsAfterOr(a, typ) ==
    IF OrNewList(a) = Len(heap.lists) + 1
    THEN Append(heap.lists, [typ |-> typ, items |-> <<>>]) ELSE heap.lists

\* Semester(nummer, 30, module), module one of the caller's lists or None
Semester_init ==
    /\ Len(heap.semester) < MaxObjekte
    /\ \E a \in {0} \cup CallerLists("Modul") :
          /\ Len(ListsAfterOr(a, "Modul")) <= MaxListen
          /\ heap' = [heap EXCEPT
                        !.lists = ListsAfterOr(a, "Modul"),
                        !.semester = Append(@, [kind |-> "Semester",
                                                nummer |-> Len(heap.semester) + 1,
                                                geplante_ects |-> 30,
                                                module |-> OrNewList(a)]),
                        !.ergebnis = None]
    /\ UNCHANGED <<studiengang, datei, geladen, session>>

\* Studiengang("Test Program", 180, semester), semester one of the caller's
\* lists or None
Studiengang_init ==
    /\ Len(heap.studiengang) < MaxObjekte
    /\ \E a \in {0} \cup CallerLists("Semester") :
          /\ Len(ListsAfterOr(a, "Semester")) <= MaxListen
          /\ heap' = [heap EXCEPT
                        !.lists = ListsAfterOr(a, "Semester"),
                        !.studiengang = Append(@, [kind |-> "Studiengang",
                                                   name |-> "Test Program",
                                                   ects_gesamt |-> 180,
                                                   semester |-> OrNewList(a)]),
                        !.ergebnis = None]
    /\ UNCHANGED <<studiengang, datei, geladen, session>>

\* heap.semester[k].add_modul(modul): self.module.append(modul)
heap_add_modul ==
    /\ \E k \in 1..Len(heap.semester), modul \in OwnModule :
          /\ Len(heap.lists[heap.semester[k].module].items) < MaxModule
          /\ heap' = [heap EXCEPT
                        !.lists[heap.semester[k].module].items = Append(@, modul),
                        !.ergebnis = None]
    /\ UNCHANGED <<studiengang, datei, geladen, session>>

\* heap.studiengang[p].add_semester(heap.semester[k]):
\* self.semester.append(semester)
heap_add_semester ==
    /\ \E p \in 1..Len(heap.studiengang), k \in 1..Len(heap.semester) :
          /\ Len(heap.lists[heap.studiengang[p].semester].items) < MaxSemester
          /\ heap' = [heap EXCEPT
                        !.lists[heap.studiengang[p].semester].items = Append(@, k),
                        !.ergebnis = None]
    /\ UNCHANGED <<studiengang, datei, geladen, session>>

InitOwn ==
    /\ studiengang = None
    /\ datei = NoFile
    /\ geladen = None
    /\ session = NoSession
    /\ heap = EmptyHeap

NextOwn ==
    \/ caller_list_of_module
    \/ caller_list_of_semester
    \/ Semester_init
    \/ Studiengang_init
    \/ heap_add_modul
    \/ heap_add_semester

SpecOwn == InitOwn /\ [][NextOwn]_vars

(***************************************************************************)
(* SpecRead: the derived calculations called on objects of the heap.       *)
(* berechne_notenschnitt collects the passed modules in a list of its own, *)
(* alle_module, which it extends semester by semester; every other          *)
(* calculation reads the fields in comprehensions and generator            *)
(* expressions and is computed on the tree of values the object holds.     *)
(* The objects are built as create_sample_data() builds them.              *)
(***************************************************************************)
\* The modules of the semester k on the heap.
ModuleOf(h, k) == h.lists[h.semester[k].module].items

\* The Studiengang object p of heap h with what its lists hold.
heap_value(h, p) ==
    Studiengang(h.studiengang[p].name, h.studiengang[p].ects_gesamt,
        [n \in 1..Len(h.lists[h.studiengang[p].semester].items) |->
            Semester(h.semester[h.lists[h.studiengang[p].semester].items[n]].nummer,
                     h.semester[h.lists[h.studiengang[p].semester].items[n]].geplante_ects,
                     ModuleOf(h, h.lists[h.studiengang[p].semester].items[n]))])

\* for semester in self.semester: alle_module.extend([...]), alle_module the
\* list at address a and sems the semesters still to come.
RECURSIVE extend_bestandene(_, _, _, _)
extend_bestandene(h, lists, a, sems) ==
    IF sems = <<>> THEN lists
    ELSE extend_bestandene(h,
             [lists EXCEPT ![a].items =
                 @ \o SelectSeq(lists[h.semester[Head(sems)].module].items,
                                Modul_ist_bestanden)],
             a, Tail(sems))

\* Mutant: the passed modules are collected in the list of modules of the
\* first semester.
heap_berechne_notenschnitt_aliased(h, p) ==
    LET semester == h.lists[h.studiengang[p].semester].items
        a == IF semester = <<>> THEN Len(h.lists) + 1 ELSE h.semester[semester[1]].module
        lists == extend_bestandene(h, Append(h.lists, [typ |-> "Modul", items |-> <<>>]),
                                   a, semester)
        alle_module == SelectSeq(lists[a].items, Modul_ist_bestanden)
        weighted_sum == SumSeq(MapNoteEcts(alle_module))
        total_ects == SumSeq(MapEcts(alle_module))
    IN  [lists |-> SubSeq(lists, 1, Len(h.lists)),
         value |-> IF alle_module = <<>> THEN Float(0, 1)
                   ELSE IF total_ects > 0 THEN FloatDiv(weighted_sum, total_ects)
                        ELSE Float(0, 1)]

\* berechne_notenschnitt() of the Studiengang object p: the value returned
\* and the lists of the heap when it returns, alle_module being dropped.
heap_berechne_notenschnitt(h, p) ==
    LET a == Len(h.lists) + 1
        lists == extend_bestandene(h, Append(h.lists, [typ |-> "Modul", items |-> <<>>]),
                                   a, h.lists[h.studiengang[p].semester].items)
        alle_module == lists[a].items
        weighted_sum == SumSeq(MapNoteEcts(alle_module))
        total_ects == SumSeq(MapEcts(alle_module))
    IN  [lists |-> SubSeq(lists, 1, Len(h.lists)),
         value |-> IF alle_module = <<>> THEN Float(0, 1)
                   ELSE IF total_ects > 0 THEN FloatDiv(weighted_sum, total_ects)
                        ELSE Float(0, 1)]

\* Every derived calculation is called on the Studiengang object p, on its
\* semesters and on their modules.
heap_calculate ==
    /\ \E p \in 1..Len(heap.studiengang) :
          \E s \in {heap_value(heap, p)}, r \in {heap_berechne_notenschnitt(heap, p)} :
            heap' = [heap EXCEPT
                       !.lists = r.lists,
                       !.ergebnis =
                          [kind |-> "results",
                           berechne_gesamtfortschritt |->
                               Studiengang_berechne_gesamtfortschritt(s),
                           berechne_notenschnitt |-> r.value,
                           get_erreichte_ects |-> Studiengang_get_erreichte_ects(s),
                           get_aktuelles_semester |-> Studiengang_get_aktuelles_semester(s),
                           to_dict |-> Studiengang_to_dict(s),
                           semester |->
                               [n \in 1..Len(s.semester) |->
                                   [ist_abgeschlossen |->
                                        Semester_ist_abgeschlossen(s.semester[n]),
                                    berechne_ects |-> Semester_berechne_ects(s.semester[n]),
                                    get_durchschnittsnote |->
                                        Semester_get_durchschnittsnote(s.semester[n]),
                                    module |->
                                        [m \in 1..Len(s.semester[n].module) |->
                                            [ist_bestanden |->
                                                 Modul_ist_bestanden(s.semester[n].module[m]),
                                             get_note |->
                                                 Modul_get_note(s.semester[n].module[m])]]]]]]
    /\ UNCHANGED <<studiengang, datei, geladen, session>>

\* studiengang.add_semester(semester) as create_sample_data() calls it: the
\* semesters are added once each, in the order they were constructed.
heap_add_next_semester ==
    /\ \E p \in 1..Len(heap.studiengang) :
          \E k \in {Len(heap.lists[heap.studiengang[p].semester].items) + 1} :
            /\ k <= Len(heap.semester)
            /\ k <= MaxSemester
            /\ heap' = [heap EXCEPT
                          !.lists[heap.studiengang[p].semester].items = Append(@, k),
                          !.ergebnis = None]
    /\ UNCHANGED <<studiengang, datei, geladen, session>>

NextRead ==
    \/ Semester_init
    \/ Studiengang_init
    \/ heap_add_modul
    \/ heap_add_next_semester
    \/ heap_calculate

SpecRead == InitOwn /\ [][NextRead]_vars

(***************************************************************************)
(* Properties.  The reference values are stated over index sets, not by    *)
(* the recursions that model the code.                                      *)
(***************************************************************************)
RECURSIVE SumOver(_, _)
SumOver(f, S) ==
    IF S = {} THEN 0
    ELSE LET x == CHOOSE y \in S : TRUE IN f[x] + SumOver(f, S \ {x})

Semesters == studiengang.semester

AllModule ==
    UNION {{Semesters[i].module[j] : j \in 1..Len(Semesters[i].module)} :
              i \in 1..Len(Semesters)}

PassedIndices(ms) == {j \in 1..Len(ms) : Modul_ist_bestanden(ms[j])}

CreditsOfPassed(ms) == SumOver([j \in 1..Len(ms) |-> ms[j].ects], PassedIndices(ms))

GradeCreditsOfPassed(ms) ==
    SumOver([j \in 1..Len(ms) |->
                IF ms[j].pruefungsleistung # None
                THEN ms[j].pruefungsleistung.note * ms[j].ects ELSE 0],
            PassedIndices(ms))

SemComplete(i) == Semester_ist_abgeschlossen(Semesters[i])

\* C1: current_semester() is the first semester in stored order that is not
\* complete, whatever the nummer fields are; every semester before it is
\* complete; it is None exactly when every semester is complete.
C1_CurrentSemesterIsFirstIncomplete ==
    LET k == Studiengang_aktuelles_semester_index(studiengang)
        cur == Studiengang_get_aktuelles_semester(studiengang)
    IN  /\ k \in 0..Len(Semesters)
        /\ (k = 0) <=> (\A i \in 1..Len(Semesters) : SemComplete(i))
        /\ (cur = None) <=> (\A i \in 1..Len(Semesters) : SemComplete(i))
        /\ k # 0 => /\ ~SemComplete(k)
                    /\ \A i \in 1..(k - 1) : SemComplete(i)
                    /\ cur = Semesters[k]

\* The current semester is the second stored, the first is complete, and the
\* nummer fields run against the stored order.
C1_Witness ==
    /\ Len(Semesters) = 2
    /\ Studiengang_aktuelles_semester_index(studiengang) = 2
    /\ Semesters[1].nummer > Semesters[2].nummer

\* C2: an assessment record is passed exactly when its grade is <= 4.0 and its
\* status is "bestanden"; grade <= 4.0 with status failed, and grade > 4.0 with
\* status passed, are both not passed.
C2_PassRule ==
    \A m \in AllModule :
        m.pruefungsleistung # None =>
            LET pl == m.pruefungsleistung
            IN  /\ Pruefungsleistung_ist_bestanden(pl)
                      <=> (pl.note <= 40 /\ pl.status = "bestanden")
                /\ (pl.note <= 40 /\ pl.status = "nicht bestanden")
                      => ~Pruefungsleistung_ist_bestanden(pl)
                /\ (pl.note > 40 /\ pl.status = "bestanden")
                      => ~Pruefungsleistung_ist_bestanden(pl)

\* The tree holds a record of grade 1.0 with status failed and a record of grade
\* 4.1 with status passed, the two cases the claim singles out.
C2_Witness ==
    /\ \E m \in AllModule : m.pruefungsleistung # None
          /\ m.pruefungsleistung.note = 10
          /\ m.pruefungsleistung.status = "nicht bestanden"
    /\ \E m \in AllModule : m.pruefungsleistung # None
          /\ m.pruefungsleistung.note = 41
          /\ m.pruefungsleistung.status = "bestanden"

\* C3: a semester's earned credits are the sum of the credits of exactly its
\* passed modules, 0 for an empty semester; failed and ungraded modules add
\* nothing.
C3_EarnedCredits ==
    \A i \in 1..Len(Semesters) :
        LET ms == Semesters[i].module
        IN  /\ Semester_berechne_ects(Semesters[i]) = CreditsOfPassed(ms)
            /\ ms = <<>> => Semester_berechne_ects(Semesters[i]) = 0
            /\ PassedIndices(ms) = {} => Semester_berechne_ects(Semesters[i]) = 0

\* A semester holds a passed module and a failed one (a record that is not
\* passed), and earns the passed module's credits.
C3_Witness ==
    \E i \in 1..Len(Semesters) :
        LET ms == Semesters[i].module
        IN  /\ Len(ms) = 2
            /\ Modul_ist_bestanden(ms[1])
            /\ ms[2].pruefungsleistung # None /\ ~Modul_ist_bestanden(ms[2])
            /\ Semester_berechne_ects(Semesters[i]) = ms[1].ects

\* C4: a semester is complete iff it has a module and every module of it is
\* passed.
C4_CompleteIff ==
    \A i \in 1..Len(Semesters) :
        LET ms == Semesters[i].module
        IN  /\ Semester_ist_abgeschlossen(Semesters[i])
                  <=> (Len(ms) > 0 /\ PassedIndices(ms) = 1..Len(ms))
            /\ ms = <<>> => ~Semester_ist_abgeschlossen(Semesters[i])

\* An empty semester (not complete) stands beside a complete one.
C4_Witness ==
    /\ \E i \in 1..Len(Semesters) : Semesters[i].module = <<>>
    /\ \E i \in 1..Len(Semesters) : Semester_ist_abgeschlossen(Semesters[i])

\* C5: a semester's average grade is the credit-weighted mean of the grades of
\* its passed modules, and None (not zero) when no module of it is passed.
C5_AverageGrade ==
    \A i \in 1..Len(Semesters) :
        LET ms == Semesters[i].module
            avg == Semester_get_durchschnittsnote(Semesters[i])
        IN  /\ PassedIndices(ms) = {} => avg = None
            /\ (PassedIndices(ms) # {} /\ CreditsOfPassed(ms) > 0) =>
                  FloatEq(avg, Float(GradeCreditsOfPassed(ms), CreditsOfPassed(ms)))

\* A semester with a passed module of 5 credits and grade 1.0 and one of 10
\* credits and grade 4.0: the average is 3.0, not the plain mean 2.5.
C5_Witness ==
    \E i \in 1..Len(Semesters) :
        LET ms == Semesters[i].module
        IN  /\ Len(ms) = 2
            /\ Modul_ist_bestanden(ms[1]) /\ Modul_ist_bestanden(ms[2])
            /\ ms[1].ects = 5 /\ ms[1].pruefungsleistung.note = 10
            /\ ms[2].ects = 10 /\ ms[2].pruefungsleistung.note = 40
            /\ FloatEq(Semester_get_durchschnittsnote(Semesters[i]), Float(30, 1))

AllPassedPlaces ==
    UNION {{<<i, j>> : j \in PassedIndices(Semesters[i].module)} :
              i \in 1..Len(Semesters)}

ModulAt(p) == Semesters[p[1]].module[p[2]]

\* C6: the overall GPA is the credit-weighted mean grade over every passed
\* module of every semester, and 0 (not None) when no module is passed.
C6_OverallGpa ==
    LET gpa == Studiengang_berechne_notenschnitt(studiengang)
        credits == SumOver([p \in AllPassedPlaces |-> ModulAt(p).ects], AllPassedPlaces)
        weighted == SumOver([p \in AllPassedPlaces |->
                                ModulAt(p).pruefungsleistung.note * ModulAt(p).ects],
                            AllPassedPlaces)
    IN  /\ AllPassedPlaces = {} => gpa = Float(0, 1)
        /\ (AllPassedPlaces # {} /\ credits > 0) => FloatEq(gpa, Float(weighted, credits))

\* Passed modules of different grade and credits in two semesters.
C6_Witness ==
    /\ Len(Semesters) = 2
    /\ \E p, q \in AllPassedPlaces :
          /\ p[1] = 1 /\ q[1] = 2
          /\ ModulAt(p).ects # ModulAt(q).ects
          /\ ModulAt(p).pruefungsleistung.note # ModulAt(q).pruefungsleistung.note

\* C7: the Studiengang's earned credits are the sum of its semesters' earned
\* credits, after every sequence of write accessors.
C7_ProgramCredits ==
    Studiengang_get_erreichte_ects(studiengang)
        = SumOver([i \in 1..Len(Semesters) |-> Semester_berechne_ects(Semesters[i])],
                  1..Len(Semesters))

\* Both of two semesters have earned credits.
C7_Witness ==
    /\ Len(Semesters) = 2
    /\ Semester_berechne_ects(Semesters[1]) > 0
    /\ Semester_berechne_ects(Semesters[2]) > 0

\* C8: the overall progress is earned credits / target * 100 when the target is
\* positive and 0 when the target is 0, with no division error; for 5 earned
\* credits and target 180 it is about 2.78.
C8_Progress ==
    LET pct == Studiengang_berechne_gesamtfortschritt(studiengang)
        earned == Studiengang_get_erreichte_ects(studiengang)
        target == studiengang.ects_gesamt
    IN  /\ pct.kind = "float"
        /\ target > 0 => FloatEq(pct, Float(earned * 100, target))
        /\ target = 0 => FloatEq(pct, Float(0, 1))
        /\ (earned = 5 /\ target = 180) =>
              FloatLeq(Float(277, 100), pct) /\ FloatLeq(pct, Float(279, 100))

\* One passed module of 5 credits against the target 180.
C8_Witness ==
    /\ studiengang.ects_gesamt = 180
    /\ Studiengang_get_erreichte_ects(studiengang) = 5

\* Earned credits against the target 0.
C8_WitnessZero ==
    /\ studiengang.ects_gesamt = 0
    /\ Studiengang_get_erreichte_ects(studiengang) > 0

\* C9: a module is passed exactly when it has an assessment record and the
\* record is passed; without a record it is not passed and its grade is None;
\* with a record its grade is the record's.
C9_ModulPassed ==
    \A m \in AllModule :
        /\ Modul_ist_bestanden(m)
              <=> (m.pruefungsleistung # None
                      /\ m.pruefungsleistung.note <= 40
                      /\ m.pruefungsleistung.status = "bestanden")
        /\ m.pruefungsleistung = None
              => (~Modul_ist_bestanden(m) /\ Modul_get_note(m) = None)
        /\ m.pruefungsleistung # None
              => Modul_get_note(m) = m.pruefungsleistung.note

\* A module without a record beside one with a failed record.
C9_Witness ==
    /\ \E m \in AllModule : m.pruefungsleistung = None
    /\ \E m \in AllModule : m.pruefungsleistung # None /\ ~Modul_ist_bestanden(m)

\* C10: load(save(P)) is a Studiengang of the same name, the same credit
\* target and the same number of semesters, with equal overall progress and
\* equal overall GPA.
C10_RoundTrip ==
    (geladen # None /\ datei = Studiengang_save_to_file(studiengang)) =>
        /\ geladen.kind = "Studiengang"
        /\ geladen.name = studiengang.name
        /\ geladen.ects_gesamt = studiengang.ects_gesamt
        /\ Len(geladen.semester) = Len(studiengang.semester)
        /\ FloatEq(Studiengang_berechne_gesamtfortschritt(geladen),
                   Studiengang_berechne_gesamtfortschritt(studiengang))
        /\ FloatEq(Studiengang_berechne_notenschnitt(geladen),
                   Studiengang_berechne_notenschnitt(studiengang))

\* A Studiengang of two semesters with a passed, a failed or an ungraded module
\* has been saved and loaded.
C10_Witness ==
    /\ geladen # None
    /\ datei = Studiengang_save_to_file(studiengang)
    /\ Len(Semesters) = 2
    /\ \E m \in AllModule : Modul_ist_bestanden(m)
    /\ \E m \in AllModule : ~Modul_ist_bestanden(m)

\* C11: load(save(P)) rebuilds the whole tree: the same semesters in the same
\* order with the same nummer and planned credits, each with the same modules
\* in the same order, each module with the same name, credits and assessment
\* record (grade, date, status, or none); so the current semester is at the
\* same position.
C11_RoundTripTree ==
    (geladen # None /\ datei = Studiengang_save_to_file(studiengang)) =>
        /\ geladen.kind = "Studiengang"
        /\ Len(geladen.semester) = Len(Semesters)
        /\ \A i \in 1..Len(Semesters) :
              /\ geladen.semester[i].nummer = Semesters[i].nummer
              /\ geladen.semester[i].geplante_ects = Semesters[i].geplante_ects
              /\ geladen.semester[i].module = Semesters[i].module
        /\ Studiengang_aktuelles_semester_index(geladen)
              = Studiengang_aktuelles_semester_index(studiengang)

\* A tree whose semesters' nummer run against the order, with a failed record
\* of the second date and a module without a record, has been saved and loaded.
C11_Witness ==
    /\ geladen # None
    /\ datei = Studiengang_save_to_file(studiengang)
    /\ Len(Semesters) = 2
    /\ Semesters[1].nummer > Semesters[2].nummer
    /\ \E m \in AllModule :
          m.pruefungsleistung # None /\ m.pruefungsleistung.status = "nicht bestanden"
    /\ \E m \in AllModule : m.pruefungsleistung = None

\* A module that is not passed: no record, or a record that fails either half
\* of the pass rule.
NichtBestanden(m) ==
    \/ m.pruefungsleistung = None
    \/ m.pruefungsleistung.note > 40
    \/ m.pruefungsleistung.status # "bestanden"

\* The step appended one module to semester i and left the rest of the tree.
ModulAdded(i) ==
    /\ Len(studiengang'.semester) = Len(Semesters)
    /\ Len(studiengang'.semester[i].module) = Len(Semesters[i].module) + 1
    /\ \A k \in 1..Len(Semesters) : k # i => studiengang'.semester[k] = Semesters[k]

\* C16: adding a module that is not passed (no record, or a failed one) never
\* changes that semester's earned credits nor the program's, and leaves the
\* semester not complete.
C16_AddNotPassed ==
    [][\A i \in 1..Len(Semesters) :
          (ModulAdded(i)
             /\ NichtBestanden(studiengang'.semester[i].module[Len(Semesters[i].module) + 1]))
          => /\ Semester_berechne_ects(studiengang'.semester[i])
                   = Semester_berechne_ects(Semesters[i])
             /\ Studiengang_get_erreichte_ects(studiengang')
                   = Studiengang_get_erreichte_ects(studiengang)
             /\ ~Semester_ist_abgeschlossen(studiengang'.semester[i])]_vars

\* A semester that earned credits with a passed module now ends in a module with
\* a failing record; it still earns the first module's credits and is not
\* complete.
C16_Witness ==
    /\ \E i \in 1..Len(Semesters) :
          LET ms == Semesters[i].module
          IN  /\ Len(ms) = 2
              /\ ~NichtBestanden(ms[1])
              /\ ms[2].pruefungsleistung # None /\ NichtBestanden(ms[2])
              /\ Semester_berechne_ects(Semesters[i]) = ms[1].ects
              /\ ~Semester_ist_abgeschlossen(Semesters[i])

\* C17: add_semester and add_modul append.  The new element is the last, the
\* elements stored before keep their order and content, the length grows by
\* one; the element is accepted whatever nummer or name is already stored, and
\* nothing is sorted by nummer.
C17_Append ==
    [][/\ \A n \in TreeNummern, g \in GeplanteEcts :
             LET neu == Semester(n, g, <<>>)
                 r == Studiengang_add_semester(studiengang, neu)
             IN  /\ Len(r.semester) = Len(Semesters) + 1
                 /\ r.semester[Len(r.semester)] = neu
                 /\ SubSeq(r.semester, 1, Len(Semesters)) = Semesters
       /\ \A i \in 1..Len(Semesters) :
             \A name \in TreeModulNamen, e \in TreeEctsWerte,
                pl \in TreePruefungsleistungen \cup {None} :
                LET neu == Modul(name, e, pl)
                    r == Semester_add_modul(Semesters[i], neu)
                IN  /\ Len(r.module) = Len(Semesters[i].module) + 1
                    /\ r.module[Len(r.module)] = neu
                    /\ SubSeq(r.module, 1, Len(Semesters[i].module)) = Semesters[i].module
       /\ Len(studiengang'.semester) = Len(Semesters) + 1
             => SubSeq(studiengang'.semester, 1, Len(Semesters)) = Semesters
       /\ \A i \in 1..Len(Semesters) :
             ModulAdded(i)
             => SubSeq(studiengang'.semester[i].module, 1, Len(Semesters[i].module))
                    = Semesters[i].module]_vars

\* Semester 2 was added before semester 1 and stayed first; the second semester
\* holds two modules of one name, the one added later last.
C17_Witness ==
    /\ Len(Semesters) = 2
    /\ Semesters[1].nummer = 2 /\ Semesters[2].nummer = 1
    /\ Len(Semesters[2].module) = 2
    /\ Semesters[2].module[1].name = Semesters[2].module[2].name
    /\ Semesters[2].module[1].pruefungsleistung # None
    /\ Semesters[2].module[2].pruefungsleistung = None

\* Two semesters of one nummer are stored.
C17_WitnessSameNummer ==
    /\ Len(Semesters) = 2
    /\ Semesters[1].nummer = Semesters[2].nummer

(***************************************************************************)
(* Properties of the sessions (SpecGui).                                    *)
(***************************************************************************)
WriteOps == {"add", "grade", "edit", "delete"}

\* The session holds a Studiengang and its last script run wrote the tree.
WriteReturned == studiengang # None /\ session.meldung.op \in WriteOps

\* C13, as stated: whenever a write operation of the presentation layer (add
\* module, record grade, edit module, confirmed delete) has returned, the
\* persisted document equals the serialization of the Studiengang in memory.
C13_SavedAfterWrite ==
    WriteReturned => datei = Studiengang_save_to_file(studiengang)

\* C13, amended: whenever a write operation has returned with its success
\* message, that is, save_data() returned True, the persisted document equals
\* the serialization of the Studiengang in memory.
C13_SavedAfterReportedWrite ==
    (WriteReturned /\ session.meldung.art = "success")
        => datei = Studiengang_save_to_file(studiengang)

\* A confirmed delete has returned with its success message.
C13_Witness ==
    /\ WriteReturned
    /\ session.meldung.op = "delete"
    /\ session.meldung.art = "success"
    /\ datei = Studiengang_save_to_file(studiengang)

\* C14: a delete removes exactly the module targeted: the semester keeps every
\* other module, one of the same name and credits included, in the same order,
\* and no other semester changes.
C14_DeleteExactlyTarget ==
    [][(studiengang # None /\ studiengang' # None /\ session'.meldung.op = "delete") =>
          LET ziel == session'.meldung.ziel
              alt == studiengang.semester
              neu == studiengang'.semester
          IN  /\ Len(neu) = Len(alt)
              /\ \E i \in 1..Len(alt) :
                    /\ \E k \in 1..Len(alt[i].module) : alt[i].module[k].id = ziel
                    /\ neu[i].module = SelectSeq(alt[i].module, LAMBDA m : m.id # ziel)
                    /\ Len(neu[i].module) = Len(alt[i].module) - 1
                    /\ neu[i].nummer = alt[i].nummer
                    /\ neu[i].geplante_ects = alt[i].geplante_ects
                    /\ \A k \in 1..Len(alt) : k # i => neu[k] = alt[k]]_vars

\* Of the two modules "KI" with 5 credits of the saved Studiengang, the second
\* (id 2, without a record) was deleted and the first (id 1, graded) is still
\* the first module of its semester.
C14_Witness ==
    /\ studiengang # None
    /\ studiengang.name = "Test Program"
    /\ session.meldung.op = "delete"
    /\ session.meldung.ziel = 2
    /\ Len(studiengang.semester[1].module) = 1
    /\ studiengang.semester[1].module[1].id = 1
    /\ studiengang.semester[1].module[1].name = <<"K", "I">>
    /\ studiengang.semester[1].module[1].ects = 5

\* C18: a session gets its Studiengang from the file when the file exists and
\* from create_sample_data() only when it does not; starting up (main.py and
\* the first script run) leaves an existing file as it is; and a script run of
\* a session that holds a Studiengang neither loads nor creates one.
C18_LoadOrCreateOnce ==
    [][/\ (studiengang = None /\ datei # NoFile) => datei' = datei
       /\ (studiengang = None /\ studiengang' # None) =>
             /\ session'.loads = 1
             /\ Studiengang_to_dict(studiengang')
                   = Studiengang_to_dict(IF datei # NoFile
                                         THEN session_load_from_file(datei)
                                         ELSE create_sample_data)
       /\ (studiengang # None /\ studiengang' # None) =>
             session'.loads = session.loads]_vars

\* After two clicks the session still holds the Studiengang it loaded, although
\* the file has another content (a save failed): it was not loaded again.
C18_Witness ==
    /\ studiengang # None
    /\ session.loads = 1
    /\ session.clicks = 2
    /\ datei # NoFile
    /\ datei # Studiengang_save_to_file(studiengang)

\* The session started without a file and holds the seeded default; no file
\* was written.
C18_WitnessSeeded ==
    /\ studiengang # None
    /\ datei = NoFile
    /\ session.loads = 1
    /\ Studiengang_to_dict(studiengang) = Studiengang_to_dict(create_sample_data)

\* The Studiengang of the session is the seeded default, as created.
SeededDefault ==
    /\ studiengang # None
    /\ Studiengang_to_dict(studiengang) = Studiengang_to_dict(create_sample_data)

\* C19, as stated: the overall progress of the seeded default is between 40 %
\* and 45 %.
C19_SeededProgress ==
    SeededDefault =>
        /\ FloatLeq(Float(40, 1), Studiengang_berechne_gesamtfortschritt(studiengang))
        /\ FloatLeq(Studiengang_berechne_gesamtfortschritt(studiengang), Float(45, 1))

\* What create_sample_data() yields: 50 of 180 credits, 27.8 %.
C19_SeededProgressIs ==
    SeededDefault =>
        /\ Studiengang_get_erreichte_ects(studiengang) = 50
        /\ FloatEq(Studiengang_berechne_gesamtfortschritt(studiengang), Float(5000, 180))

\* C20: the seeded default is "Informatik Bachelor" with target 180 and six
\* semesters; its current semester is the third, nummer 3; semesters 1 and 2
\* are complete, semester 3 holds passed and ungraded modules, semesters 4 to 6
\* hold only ungraded modules.
C20_SeededDefault ==
    SeededDefault =>
        LET sems == studiengang.semester
        IN  /\ studiengang.name = "Informatik Bachelor"
            /\ studiengang.ects_gesamt = 180
            /\ Len(sems) = 6
            /\ Studiengang_aktuelles_semester_index(studiengang) = 3
            /\ Studiengang_get_aktuelles_semester(studiengang).nummer = 3
            /\ \A i \in {1, 2} : Semester_ist_abgeschlossen(sems[i])
            /\ \E k \in 1..Len(sems[3].module) : Modul_ist_bestanden(sems[3].module[k])
            /\ \E k \in 1..Len(sems[3].module) : sems[3].module[k].pruefungsleistung = None
            /\ \A k \in 1..Len(sems[3].module) :
                  \/ Modul_ist_bestanden(sems[3].module[k])
                  \/ sems[3].module[k].pruefungsleistung = None
            /\ \A i \in {4, 5, 6} :
                  /\ sems[i].module # <<>>
                  /\ \A k \in 1..Len(sems[i].module) :
                        sems[i].module[k].pruefungsleistung = None

\* A session that started without a file holds the seeded default.
C20_Witness ==
    /\ SeededDefault
    /\ datei = NoFile
    /\ session.selected_semester = 3

(***************************************************************************)
(* Properties of loading an edited file (SpecLoad).                         *)
(***************************************************************************)
\* The keys the file format gives each object.
StudiengangKeys == {"name", "ects_gesamt", "semester"}
SemesterKeys == {"nummer", "geplante_ects", "module"}
ModulKeys == {"name", "ects", "pruefungsleistung"}
PruefungsleistungKeys == {"note", "datum", "status"}

\* A date string of the documents save_to_file writes here.
IstDatum(str) == str \in {date_isoformat(d) : d \in {date(2023, 2, 15)}}

MalformedPruefungsleistung(pl) ==
    \/ ~(PruefungsleistungKeys \subseteq DOMAIN pl)
    \/ HasKey(pl, "datum") /\ ~IstDatum(pl.datum)

MalformedModul(m) ==
    \/ ~(ModulKeys \subseteq DOMAIN m)
    \/ /\ HasKey(m, "pruefungsleistung")
       /\ m.pruefungsleistung # JsonNull
       /\ MalformedPruefungsleistung(m.pruefungsleistung)

MalformedSemester(sem) ==
    \/ ~(SemesterKeys \subseteq DOMAIN sem)
    \/ /\ HasKey(sem, "module")
       /\ \E j \in 1..Len(sem.module) : MalformedModul(sem.module[j])

\* The document misses a field of the file format somewhere, or holds a date
\* string that is not YYYY-MM-DD.
Malformed(doc) ==
    \/ ~(StudiengangKeys \subseteq DOMAIN doc)
    \/ /\ HasKey(doc, "semester")
       /\ \E i \in 1..Len(doc.semester) : MalformedSemester(doc.semester[i])

\* load_from_file has read the file as it is now.
Loaded == datei # NoFile /\ geladen # None

\* C12, as stated: loading a malformed document (a field missing, such as the
\* semester array, a semester's module array, a module's name or ects; a date
\* string that is not YYYY-MM-DD) fails with an error; load never returns a
\* Studiengang in which a missing field was replaced by a default.
C12_MalformedLoadFails ==
    (Loaded /\ Malformed(datei.content)) => IsRaised(geladen)

\* What load_from_file does: a document without its semester array loads as a
\* Studiengang without semesters, a semester without its module array as an
\* empty semester, a module without its pruefungsleistung key as an ungraded
\* module.
C12_DefaultsSubstituted ==
    Loaded =>
        /\ (~HasKey(datei.content, "semester") /\ HasKey(datei.content, "name")
              /\ HasKey(datei.content, "ects_gesamt"))
           => (~IsRaised(geladen) /\ geladen.semester = <<>>)

\* What does fail: a missing name, ects_gesamt, nummer, geplante_ects, ects, and
\* in a pruefungsleistung object that is not empty a missing note, datum or
\* status or a date string that is not a date, raise KeyError or ValueError.
\* (An empty pruefungsleistung object is falsy and read as no record.)
C12_ScalarsRequired ==
    Loaded =>
        /\ ~({"name", "ects_gesamt"} \subseteq DOMAIN datei.content) => IsRaised(geladen)
        /\ HasSemester(datei.content) =>
              \A i \in 1..Len(datei.content.semester) :
                 LET sem == datei.content.semester[i]
                 IN  /\ ~({"nummer", "geplante_ects"} \subseteq DOMAIN sem)
                        => IsRaised(geladen)
                     /\ HasKey(sem, "module") =>
                           \A j \in 1..Len(sem.module) :
                              LET m == sem.module[j]
                              IN  /\ ~({"name", "ects"} \subseteq DOMAIN m)
                                     => IsRaised(geladen)
                                  /\ (HasPruefungsleistung(datei.content, i, j)
                                         /\ DOMAIN m.pruefungsleistung # {})
                                     => (MalformedPruefungsleistung(m.pruefungsleistung)
                                            => IsRaised(geladen))

(***************************************************************************)
(* Properties of ownership (SpecOwn).                                       *)
(***************************************************************************)

\* C15, as stated: ownership is exclusive.  No list of modules is held by two
\* Semesters or by a Semester and the caller who passed it to the constructor,
\* and no list of semesters by two Studiengaenge or by one and the caller.
C15_ExclusiveOwnership ==
    /\ \A k1, k2 \in 1..Len(heap.semester) :
          k1 # k2 => heap.semester[k1].module # heap.semester[k2].module
    /\ \A k \in 1..Len(heap.semester) : heap.semester[k].module \notin heap.caller
    /\ \A p1, p2 \in 1..Len(heap.studiengang) :
          p1 # p2 => heap.studiengang[p1].semester # heap.studiengang[p2].semester
    /\ \A p \in 1..Len(heap.studiengang) : heap.studiengang[p].semester \notin heap.caller

\* C15, its consequence: a step that changes the modules of one Semester
\* leaves the modules, and so the earned credits and the completion, of every
\* other Semester as they were.
C15_AddModulLocal ==
    [][\A k1, k2 \in 1..Len(heap.semester) :
          (k1 # k2 /\ Len(heap'.semester) = Len(heap.semester)
             /\ ModuleOf(heap', k1) # ModuleOf(heap, k1))
          => ModuleOf(heap', k2) = ModuleOf(heap, k2)]_vars

\* What holds: a Semester constructed without a list, or with an empty one,
\* gets a list of its own.
C15_OwnListIfEmpty ==
    [][\A k \in 1..Len(heap'.semester) :
          (k > Len(heap.semester) /\ heap'.lists[heap'.semester[k].module].items = <<>>)
          => /\ heap'.semester[k].module \notin heap'.caller
             /\ \A k2 \in 1..Len(heap.semester) :
                   heap.semester[k2].module # heap'.semester[k].module]_vars

(***************************************************************************)
(* Submissions that fail validation.                                       *)
(***************************************************************************)
\* The name as the duplicate check reads it: trimmed and in lower case.
Normalised(name) == str_lower(str_strip(name))

\* Semester sem holds a module other than the one with identity id whose name
\* is name, case and surrounding whitespace aside.
Duplicates(sem, name, id) ==
    \E k \in 1..Len(sem.module) :
        /\ sem.module[k].id # id
        /\ Normalised(sem.module[k].name) = Normalised(name)

NameInvalid(name) == Len(str_strip(name)) < 2 \/ Len(str_strip(name)) > 100
EctsInvalid(ects) == ects < 1 \/ ects > 30
GradeInvalid(grade) == grade < 10 \/ grade > 50

\* The script run r left the tree and the file as they are.
NothingChanged(r) == r.studiengang = studiengang /\ r.datei = datei

\* C21: a submission that fails validation (name empty, shorter than 2 or
\* longer than 100 characters after trimming; credits outside 1..30; grade
\* outside 1.0..5.0; a name that another module of the semester has) changes
\* nothing: the tree and the file are after the run what they were before,
\* whether the form is "Add Module", "Update" or "Record Grade".
C21_InvalidChangesNothing ==
    (studiengang # None /\ selected_semester(Clicked) # 0) =>
        \A r \in {Clicked} : \A i \in {selected_semester(r)} :
          \A sem \in {r.studiengang.semester[i]} :
            /\ \A name \in FormNamen, ects \in {0, 5, 31}, has_grade \in BOOLEAN,
                  grade \in {9, 23, 51} :
                  (\/ NameInvalid(name) \/ EctsInvalid(ects)
                   \/ (has_grade /\ GradeInvalid(grade))
                   \/ Duplicates(sem, name, 0))
                    => NothingChanged(show_add_module_form_for_semester(
                           r, i, name, ects, has_grade, grade, date(2024, 2, 29),
                           "written"))
            /\ \A name \in FormNamen, ects \in {0, 5, 31}, j \in 1..Len(sem.module) :
                  (\/ NameInvalid(name) \/ EctsInvalid(ects)
                   \/ Duplicates(sem, name, sem.module[j].id))
                    => NothingChanged(show_edit_module_form_for_semester_update(
                           r, i, j, name, ects, "written"))
            /\ \A grade \in {9, 23, 51}, n \in 1..Len(modules_without_grades(r, i)) :
                  GradeInvalid(grade)
                    => NothingChanged(show_grade_recording_form_for_semester(
                           r, i, n, grade, date(2024, 2, 29), "written"))

\* The last script run rejected a submission in a semester that holds a
\* module added before ("AB"), and the tree and the file are the ones that
\* add left.
C21_Witness ==
    /\ studiengang # None
    /\ session.clicks = 2
    /\ session.meldung.art = "error"
    /\ session.meldung.op = "none"
    /\ Len(studiengang.semester[1].module) = 3
    /\ studiengang.semester[1].module[3].name = <<"A", "B">>
    /\ datei = Studiengang_save_to_file(studiengang)

(***************************************************************************)
(* Names within a semester.                                                *)
(***************************************************************************)
\* No two modules of ms have names that are equal after trimming and
\* lower-casing.
NamesDistinct(ms) ==
    \A names \in {[k \in 1..Len(ms) |-> Normalised(ms[k].name)]} :
        \A k, l \in 1..Len(ms) : k # l => names[k] # names[l]

\* C22: a script run of a session keeps every semester free of two modules
\* whose names differ only by case or surrounding whitespace: a semester that
\* holds no such pair before the run holds none after it, whatever form was
\* submitted.
C22_NamesStayDistinct ==
    [][(studiengang # None /\ studiengang' # None) =>
          \A i \in 1..Len(studiengang.semester) :
              \/ studiengang'.semester[i].module = studiengang.semester[i].module
              \/ ~NamesDistinct(studiengang.semester[i].module)
              \/ NamesDistinct(studiengang'.semester[i].module)]_vars

\* "KI" was added to the current semester of the seeded default, which held
\* no module of that name, and the next submission (" ki " or "KI" again, in
\* either form, or "K") was refused.
C22_Witness ==
    /\ studiengang # None
    /\ studiengang.name = "Informatik Bachelor"
    /\ session.clicks = 2
    /\ session.meldung.art = "error"
    /\ session.meldung.op = "none"
    /\ Len(studiengang.semester[3].module) = 5
    /\ studiengang.semester[3].module[5].name = <<"K", "I">>
    /\ NamesDistinct(studiengang.semester[3].module)

(***************************************************************************)
(* The averages when the credits of the passed modules do not sum to a      *)
(* positive number (SpecZero).                                              *)
(***************************************************************************)
\* C23: the averaging operations never fail with a division by zero: a
\* semester's average is a number or None and the overall GPA is a number;
\* when the credits of the passed modules sum to zero or less, the semester's
\* average is None and the overall GPA is 0.
C23_NoDivisionByZero ==
    /\ \A i \in 1..Len(Semesters) :
          LET avg == Semester_get_durchschnittsnote(Semesters[i])
          IN  /\ ~IsRaised(avg)
              /\ CreditsOfPassed(Semesters[i].module) <= 0 => avg = None
    /\ LET gpa == Studiengang_berechne_notenschnitt(studiengang)
            credits == SumOver([p \in AllPassedPlaces |-> ModulAt(p).ects],
                               AllPassedPlaces)
       IN  /\ ~IsRaised(gpa)
           /\ credits <= 0 => gpa = Float(0, 1)

\* A semester holds two passed modules, of 5 and of -5 credits: the credits
\* of its passed modules sum to zero, and there is no average.
C23_Witness ==
    \E i \in 1..Len(Semesters) :
        LET ms == Semesters[i].module
        IN  /\ Len(ms) = 2
            /\ Modul_ist_bestanden(ms[1]) /\ Modul_ist_bestanden(ms[2])
            /\ ms[1].ects = 5 /\ ms[2].ects = -5
            /\ Semester_get_durchschnittsnote(Semesters[i]) = None
            /\ Studiengang_berechne_notenschnitt(studiengang) = Float(0, 1)

\* A passed module of zero credits is the only module.
C23_WitnessZero ==
    /\ Len(Semesters) = 1
    /\ Len(Semesters[1].module) = 1
    /\ Modul_ist_bestanden(Semesters[1].module[1])
    /\ Semesters[1].module[1].ects = 0
    /\ Semester_get_durchschnittsnote(Semesters[1]) = None

(***************************************************************************)
(* The derived calculations as reads (SpecRead).                           *)
(***************************************************************************)
\* C24: every derived calculation is a pure read.  A call of them (passed,
\* grade, earned credits, average, completion, progress, overall GPA, current
\* semester, serialization) leaves every object of the tree as it was: the
\* fields of each Studiengang and Semester, and the elements, order and length
\* of each list of semesters and of modules.
C24_CalculationsReadOnly ==
    [][heap'.ergebnis # None =>
          /\ heap'.lists = heap.lists
          /\ heap'.semester = heap.semester
          /\ heap'.studiengang = heap.studiengang]_vars

\* The calculations were called on a Studiengang with two semesters, the
\* first with a passed module, and returned the GPA 2.0 and the second
\* semester as the current one.
C24_Witness ==
    /\ heap.ergebnis # None
    /\ Len(heap.ergebnis.semester) = 2
    /\ heap.ergebnis.semester[1].ist_abgeschlossen
    /\ FloatEq(heap.ergebnis.berechne_notenschnitt, Float(20, 1))
    /\ heap.ergebnis.get_erreichte_ects = 5
    /\ heap.ergebnis.get_aktuelles_semester.nummer = 2

(***************************************************************************)
(* Confirmation of a delete (SpecDelete).                                  *)
(***************************************************************************)
\* C25, as stated: a module is removed only by a click on its "Delete"
\* button that follows an earlier click on the "Delete" button of that same
\* module; the first click on a module's button never removes it.
C25_DeleteNeedsConfirmation ==
    [][(studiengang # None /\ studiengang' # None /\ session'.meldung.op = "delete")
          => session'.meldung.ziel \in session.delete_clicked]_vars

\* What holds: a module is removed only when the key confirm_delete_{nummer}_{i}
\* of its semester's nummer and its position is set.
C25_DeleteNeedsKey ==
    [][(studiengang # None /\ studiengang' # None /\ session'.meldung.op = "delete")
          => \E i \in 1..Len(studiengang.semester) :
               \E j \in 1..Len(studiengang.semester[i].module) :
                  /\ studiengang.semester[i].module[j].id = session'.meldung.ziel
                  /\ <<studiengang.semester[i].nummer, j - 1>>
                        \in session.confirm_delete]_vars

C26_DefaultIsNummerOfCurrent ==
    [][(studiengang = None /\ studiengang' # None) =>
          session'.selected_semester =
              IF Studiengang_aktuelles_semester_index(studiengang') # 0
              THEN Studiengang_get_aktuelles_semester(studiengang').nummer
              ELSE 1]_vars

(***************************************************************************)
(* A save that fails after the file was opened (SpecForm).                 *)
(***************************************************************************)
\* The modules of the tree s that carry the id ziel.
ModuleWithId(s, ziel) ==
    UNION {{s.semester[i].module[j] : j \in {k \in 1..Len(s.semester[i].module) :
                                                s.semester[i].module[k].id = ziel}} :
              i \in 1..Len(s.semester)}

\* The write op on the module ziel is in the tree neu and was not in alt.
KeptInMemory(alt, neu, op, ziel) ==
    CASE op = "add" -> ModuleWithId(alt, ziel) = {} /\ ModuleWithId(neu, ziel) # {}
      [] op = "grade" -> /\ \A m \in ModuleWithId(alt, ziel) : m.pruefungsleistung = None
                         /\ ModuleWithId(neu, ziel) # {}
                         /\ \A m \in ModuleWithId(neu, ziel) : m.pruefungsleistung # None
      [] op = "delete" -> ModuleWithId(alt, ziel) # {} /\ ModuleWithId(neu, ziel) = {}
      [] OTHER -> ModuleWithId(neu, ziel) # {}

\* C27: a save that fails once the file is open for writing leaves a file
\* that is not the document saved before and that a later load_from_file
\* cannot read, and the change that was being saved stays in memory.
C27_SaveNotAtomic ==
    [][(/\ studiengang # None /\ studiengang' # None
        /\ session'.clicks = session.clicks + 1
        /\ session'.meldung.art = "error" /\ session'.meldung.op # "none"
        /\ datei' # datei) =>
          /\ datei' = File(JsonTruncated)
          /\ IsRaised(session_load_from_file(datei'))
          /\ ~IsRaised(session_load_from_file(datei))
          /\ KeptInMemory(studiengang, studiengang', session'.meldung.op,
                          session'.meldung.ziel)]_vars

\* A module was added, the save failed part-way: the file does not parse and
\* the module is in the tree.
C27_Witness ==
    /\ studiengang # None
    /\ datei = File(JsonTruncated)
    /\ session.meldung.art = "error" /\ session.meldung.op = "add"
    /\ ModuleWithId(studiengang, session.meldung.ziel) # {}
    /\ session.clicks = 1

(***************************************************************************)
(* The status of the records the forms create (SpecGui).                   *)
(***************************************************************************)
\* The record of m says "bestanden" exactly when its note is at most 4.0.
StatusConsistent(m) ==
    m.pruefungsleistung # None =>
        (m.pruefungsleistung.status = "bestanden") = (m.pruefungsleistung.note <= 40)

\* C28, as stated: the record of a module written by "Add Module" or by
\* "Record Grade" has the status "bestanden" exactly when its note is at
\* most 4.0, and "nicht bestanden" otherwise.
C28_StatusMatchesGrade ==
    [][(/\ studiengang # None /\ studiengang' # None
        /\ session'.clicks = session.clicks + 1
        /\ session'.meldung.op \in {"add", "grade"}) =>
          \A m \in ModuleWithId(studiengang', session'.meldung.ziel) :
              /\ StatusConsistent(m)
              /\ m.pruefungsleistung # None =>
                    m.pruefungsleistung.status \in {"bestanden", "nicht bestanden"}]_vars

\* What holds: the record written by "Record Grade" has the status that its
\* note calls for.
C28_RecordGradeStatusMatches ==
    [][(/\ studiengang # None /\ studiengang' # None
        /\ session'.clicks = session.clicks + 1
        /\ session'.meldung.op = "grade") =>
          \A m \in ModuleWithId(studiengang', session'.meldung.ziel) :
              m.pruefungsleistung # None /\ StatusConsistent(m)]_vars

(***************************************************************************)
(* The record of a module, once it has one (SpecGui).                      *)
(***************************************************************************)
\* C29: in a script run of a session, a module that has a record and is not
\* deleted keeps that record, whatever form is submitted; a semester holding
\* a module whose record is not a pass is not complete after the run either.
C29_RecordIsFinal ==
    [][(studiengang # None /\ studiengang' # None) =>
          \A i \in 1..Len(studiengang.semester) :
              \/ studiengang'.semester[i].module = studiengang.semester[i].module
              \/ \A j \in 1..Len(studiengang.semester[i].module) :
                     \A alt \in {studiengang.semester[i].module[j]} :
                        alt.pruefungsleistung # None =>
                           \A neu \in ModuleWithId(studiengang', alt.id) :
                              /\ neu.pruefungsleistung = alt.pruefungsleistung
                              /\ ~Modul_ist_bestanden(alt) =>
                                    ~Semester_ist_abgeschlossen(studiengang'.semester[i])]_vars

\* A module was given the grade 5.0 and was then renamed: its record is the
\* failed one and its semester is not complete.
C29_Witness ==
    /\ studiengang # None
    /\ session.clicks = 2
    /\ session.meldung.art = "success" /\ session.meldung.op = "edit"
    /\ \E i \in 1..Len(studiengang.semester) :
          /\ ~Semester_ist_abgeschlossen(studiengang.semester[i])
          /\ \E j \in 1..Len(studiengang.semester[i].module) :
                \E m \in {studiengang.semester[i].module[j]} :
                   /\ m.id = session.meldung.ziel
                   /\ m.name = <<"K", "I">>
                   /\ m.pruefungsleistung # None
                   /\ m.pruefungsleistung.status = "nicht bestanden"
                   /\ m.pruefungsleistung.datum = date(2024, 2, 29)

(***************************************************************************)
(* A passing grade recorded on a module without a record (SpecForm).       *)
(***************************************************************************)
\* The first incomplete semester of the tree s after position i, 0 if none.
NextIncomplete(s, i) ==
    LET open == {k \in (i + 1)..Len(s.semester) :
                    ~Semester_ist_abgeschlossen(s.semester[k])}
    IN  IF open = {} THEN 0 ELSE CHOOSE k \in open : \A l \in open : k <= l

\* "Record Grade" gave module j of semester i of the tree alt a record that
\* is a pass, and neu is the tree after it.
PassRecorded(alt, neu, i, j) ==
    /\ session'.meldung.op = "grade"
    /\ session'.meldung.ziel = alt.semester[i].module[j].id
    /\ alt.semester[i].module[j].pruefungsleistung = None
    /\ Modul_ist_bestanden(neu.semester[i].module[j])

\* The current semester does not move to an earlier position; when the
\* module passed was the last one of the current semester not passed, the
\* current semester is the next incomplete one or None, and else it stays.
CurrentMovesOn(alt, neu, i) ==
    \A a \in {Studiengang_aktuelles_semester_index(alt)},
       n \in {Studiengang_aktuelles_semester_index(neu)} :
        /\ a # 0
        /\ n = 0 \/ n >= a
        /\ n = IF i = a /\ Semester_ist_abgeschlossen(neu.semester[i])
               THEN NextIncomplete(neu, i) ELSE a
        /\ (n = 0) = (Studiengang_get_aktuelles_semester(neu) = None)

C30_WitnessNone ==
    /\ studiengang # None
    /\ session.meldung.op = "grade"
    /\ Studiengang_get_aktuelles_semester(studiengang) = None

====
